---- MODULE Spec2Model ----
(***************************************************************************)
(* Entity / relationship resolution of infoextract_cidoc                   *)
(* (extraction/resolution.py), with the lite schema it consumes            *)
(* (extraction/lite_schema.py) and the models it builds                    *)
(* (extraction/models.py).                                                 *)
(*                                                                         *)
(* Two specifications share the registry operators:                        *)
(*   Spec          one caller invoking resolve_extraction on a fixed       *)
(*                 LiteExtractionResult, possibly several times;           *)
(*   SpecRegistry  a client driving one EntityRegistry through its API.    *)
(* Further specifications:                                                 *)
(*   SpecValidation  a client of the validators (validators/quantifiers.py *)
(*                   and validators/typing_rules.py) on CRM entities;      *)
(*   SpecCaller      a caller that either resolves a batch or validates;   *)
(*   SpecConcurrent  several invocations of resolve_extraction,            *)
(*                   interleaved statement by statement;                   *)
(*   SpecProducers   producers registering on one shared EntityRegistry    *)
(*                   under a mutex of their own;                           *)
(*   SpecShortcuts   a client of the shortcut expanders (io/to_cypher.py,  *)
(*                   io/to_networkx/graph_builder.py);                     *)
(*   SpecMapper      a caller that resolves a batch, or holds a result of  *)
(*                   its own, and maps it (extraction/crm_mapper.py);      *)
(*   SpecCypher      a client of the Cypher script and parameter           *)
(*                   generators (io/to_cypher.py);                         *)
(*   SpecAncestry    a caller of the class compatibility test, against     *)
(*                   the class statements of models/generated/e_classes.py.*)
(*                                                                         *)
(* Strings are TLA+ strings.  uuid5(namespace, name) is modelled by its    *)
(* name argument: two ids are equal exactly when the hashed names are.     *)
(***************************************************************************)
EXTENDS Integers, Sequences, FiniteSets, TLC

VARIABLES
    lite_result,    \* the LiteExtractionResult handed to resolve_extraction
    by_ref_id,      \* EntityRegistry._by_ref_id : dict ref_id -> entity
    by_label,       \* EntityRegistry._by_label  : dict label -> entity, in insertion order
    pc,             \* position of the caller
    i,              \* index of the next lite entity of stage A
    j,              \* index of the next lite relationship of stage B
    entities,       \* local `entities` of resolve_extraction
    relationships,  \* local `relationships` of resolve_extraction
    warnings,       \* logger.warning records of the current invocation
    result,         \* the returned ExtractionResult, None before the return
    exc,            \* the exception that left resolve_extraction, None if none
    run,            \* number of invocations started so far
    prev,           \* outcome of the previous invocation
    registered,     \* history: the <<ref_id, label>> pairs the registry has accepted
    ret,            \* value returned (or raised) by the last call of the client
    crm_entities,   \* the CRM entities handed to the validators and exporters
    log,            \* logging records emitted by the last validator call
    issued,         \* warnings issued through warnings.warn by the last validator call
    call,           \* the last call made by the client of the validators / exporters
    invocations,    \* concurrent resolve_extraction invocations: their local state
    registries,     \* the EntityRegistry instances of the concurrent invocations
    pending,        \* producers of a shared registry: the lite entity each holds
    lock            \* the producers' external mutex: its holder, 0 when free

\* State of the resolution pipeline and of the registry client.
resVars == <<lite_result, by_ref_id, by_label, pc, i, j, entities, relationships,
             warnings, result, exc, run, prev, registered, ret>>

\* State of the validators' client, of the concurrent invocations and of the
\* producers.
extVars == <<crm_entities, log, issued, call, invocations, registries, pending, lock>>

vars == <<lite_result, by_ref_id, by_label, pc, i, j, entities, relationships,
          warnings, result, exc, run, prev, registered, ret,
          crm_entities, log, issued, call, invocations, registries, pending, lock>>

-----------------------------------------------------------------------------
(* Bounds of the model *)

MaxEntities == 2
MaxRels == 2
MaxRuns == 2

-----------------------------------------------------------------------------
(* Values *)

\* Python's None where a string may stand (str | None): a value different from
\* every string of the domains below.
None == "<None>"

\* Python's None where an object may stand (an entity, a result, an exception).
Nothing == [cls |-> "NoneType"]

\* An exception object.
Exception(name) == [cls |-> name]

RefIds == {"a", "a:b"}
Labels == {"c", "b:c"}
MissingRef == "zz"
EntityTypes == {"Person", "Event", "Place", "Object", "TimeSpan", "Widget"}

\* attributes: dict[str, Any], as a set of <<key, value>> pairs with unique keys.
AttrChoices == { {}, {<<"event_type", "battle">>}, {<<"event_type", None>>} }

DictHas(d, k) == \E p \in d : p[1] = k

\* dict.get(k, default)
DictGet(d, k, default) ==
    IF DictHas(d, k) THEN (CHOOSE p \in d : p[1] = k)[2] ELSE default

LiteEntity(r, t, l, d, a) ==
    [ref_id |-> r, entity_type |-> t, label |-> l, description |-> d,
     confidence |-> 10, source_snippet |-> None, attributes |-> a]

\* The LiteEntity values of the model (confidence in tenths, 1.0 by default):
\* every entity_type under every ref_id and label, and an Event with a
\* description under every choice of attributes.
LiteEntities ==
    { LiteEntity(r, t, l, None, {}) : r \in RefIds, t \in EntityTypes, l \in Labels }
    \cup { LiteEntity(r, "Event", l, "d", a) :
              r \in RefIds, l \in Labels, a \in AttrChoices }

\* The fields class LiteRelationship declares.
LiteRelationshipFields ==
    {"source_ref", "target_ref", "property_code", "property_label", "confidence"}

LiteRelationship(s, t, p) ==
    [source_ref |-> s, target_ref |-> t, property_code |-> p,
     property_label |-> "label", confidence |-> 10]

\* The lite entities and relationships a batch of Spec is drawn from.
BatchEntities ==
    { LiteEntity(r, "Person", l, None, {}) : r \in RefIds, l \in Labels }
    \cup { LiteEntity("a", "Event", "c", "d", {<<"event_type", None>>}),
           LiteEntity("a:b", "Widget", "b:c", None, {}) }

BatchRelationships ==
    { LiteRelationship(s, t, "P98") : s \in {"a", MissingRef}, t \in {"a", MissingRef} }
    \cup { LiteRelationship("a:b", "a", "P7") }

SeqsUpTo(S, n) == UNION { [1..k -> S] : k \in 0..n }

LiteExtractionResults ==
    [entities : SeqsUpTo(BatchEntities, MaxEntities),
     relationships : SeqsUpTo(BatchRelationships, MaxRels)]

-----------------------------------------------------------------------------
(* resolution.py: module tables and helpers *)

EmptyDict == [k \in {} |-> Nothing]

\* Variant of d[k] = v that keeps no earlier key.
DictPutAlone(d, k, v) == [x \in {k} |-> v]

\* d[k] = v
DictPut(d, k, v) == [x \in (DOMAIN d) \cup {k} |-> IF x = k THEN v ELSE d[x]]

\* Variant of _ENTITY_TYPE_MAP with the codes of Place and Object exchanged.
ENTITY_TYPE_MAP_Swapped ==
    [Person   |-> <<"PersonExtraction", "E21">>,
     Event    |-> <<"EventExtraction", "E5">>,
     Place    |-> <<"PlaceExtraction", "E22">>,
     Object   |-> <<"ObjectExtraction", "E53">>,
     TimeSpan |-> <<"TimeExtraction", "E52">>]

\* _ENTITY_TYPE_MAP: entity_type -> <<ExtractedEntity subclass, class_code>>
ENTITY_TYPE_MAP ==
    [Person   |-> <<"PersonExtraction", "E21">>,
     Event    |-> <<"EventExtraction", "E5">>,
     Place    |-> <<"PlaceExtraction", "E53">>,
     Object   |-> <<"ObjectExtraction", "E22">>,
     TimeSpan |-> <<"TimeExtraction", "E52">>]

\* _SUBCLASS_DEFAULTS: subclass -> dict of required field -> default
SUBCLASS_DEFAULTS ==
    [EventExtraction  |-> {<<"event_type", "unknown">>},
     PlaceExtraction  |-> {<<"place_type", "unknown">>},
     ObjectExtraction |-> {<<"object_type", "unknown">>},
     TimeExtraction   |-> {<<"time_type", "unknown">>}]

\* Variant of _stable_uuid whose name is salted per invocation, as a
\* time- or random-based uuid would be.
StableUuidSalted(ref_id, label) == ref_id \o ":" \o label \o ":" \o ToString(run)

\* _stable_uuid: uuid5(_EXTRACTION_NAMESPACE, f"{ref_id}:{label}")
StableUuid(ref_id, label) == ref_id \o ":" \o label

\* _ENTITY_TYPE_MAP.get(lite.entity_type, (ExtractedEntity, "E55"))
EntityClassOf(entity_type) ==
    IF entity_type \in DOMAIN ENTITY_TYPE_MAP
    THEN ENTITY_TYPE_MAP[entity_type]
    ELSE <<"ExtractedEntity", "E55">>

\* Variant of the loop of lines 78-80 that ignores the attributes.
SubclassKwargsDefaultOnly(lite) ==
    LET cls == EntityClassOf(lite.entity_type)[1]
        defaults == IF cls \in DOMAIN SUBCLASS_DEFAULTS THEN SUBCLASS_DEFAULTS[cls] ELSE {}
    IN { <<d[1], d[2]>> : d \in defaults }

\* The keyword arguments for the required subclass fields (loop of lines 78-80).
SubclassKwargs(lite) ==
    LET cls == EntityClassOf(lite.entity_type)[1]
        defaults == IF cls \in DOMAIN SUBCLASS_DEFAULTS THEN SUBCLASS_DEFAULTS[cls] ELSE {}
    IN { <<d[1], DictGet(lite.attributes, d[1], d[2])>> : d \in defaults }

\* entity_cls(**kwargs) validates: the required subclass fields are declared `str`.
EntityValidates(lite) == \A kw \in SubclassKwargs(lite) : kw[2] # None

\* _make_extracted_entity, when the constructor accepts the arguments.
MakeExtractedEntity(lite) ==
    [cls         |-> EntityClassOf(lite.entity_type)[1],
     id          |-> StableUuid(lite.ref_id, lite.label),
     class_code  |-> EntityClassOf(lite.entity_type)[2],
     label       |-> lite.label,
     description |-> lite.description,
     confidence  |-> lite.confidence,
     source_text |-> lite.source_snippet,
     properties  |-> lite.attributes,
     fields      |-> SubclassKwargs(lite)]

-----------------------------------------------------------------------------
(* class EntityRegistry *)

LabelIndex(bl, label) ==
    IF \E k \in 1..Len(bl) : bl[k].key = label
    THEN CHOOSE k \in 1..Len(bl) : bl[k].key = label
    ELSE 0

\* Variant of register in which the last registration of a label wins: the
\* entity of an already known label is rebuilt from the later lite entity.
RegisterLastSeenWins(ref_map, label_map, lite) ==
    LET k == LabelIndex(label_map, lite.label) IN
    IF ~EntityValidates(lite)
    THEN [by_ref_id |-> ref_map,
          by_label  |-> label_map,
          raised    |-> Exception("ValidationError"),
          ret       |-> Nothing]
    ELSE [by_ref_id |-> DictPut(ref_map, lite.ref_id, MakeExtractedEntity(lite)),
          by_label  |-> IF k # 0
                        THEN [label_map EXCEPT ![k].value = MakeExtractedEntity(lite)]
                        ELSE Append(label_map,
                               [key |-> lite.label, value |-> MakeExtractedEntity(lite)]),
          raised    |-> Nothing,
          ret       |-> MakeExtractedEntity(lite)]

\* EntityRegistry.register on the registry <<ref_map, label_map>>: the registry
\* after the call and what the call returned or raised.
Register(ref_map, label_map, lite) ==
    LET k == LabelIndex(label_map, lite.label) IN
    IF k # 0
    THEN [by_ref_id |-> DictPut(ref_map, lite.ref_id, label_map[k].value),
          by_label  |-> label_map,
          raised    |-> Nothing,
          ret       |-> label_map[k].value]
    ELSE IF ~EntityValidates(lite)
    THEN [by_ref_id |-> ref_map,
          by_label  |-> label_map,
          raised    |-> Exception("ValidationError"),
          ret       |-> Nothing]
    ELSE [by_ref_id |-> DictPut(ref_map, lite.ref_id, MakeExtractedEntity(lite)),
          by_label  |-> Append(label_map,
                               [key |-> lite.label, value |-> MakeExtractedEntity(lite)]),
          raised    |-> Nothing,
          ret       |-> MakeExtractedEntity(lite)]

\* EntityRegistry.resolve
Resolve(ref_map, ref_id) ==
    IF ref_id \in DOMAIN ref_map THEN ref_map[ref_id] ELSE Nothing

RECURSIVE EntitiesUpTo(_, _)
EntitiesUpTo(label_map, n) ==
    IF n = 0 THEN <<>>
    ELSE LET seen == EntitiesUpTo(label_map, n - 1)
             entity == label_map[n].value
         IN IF \E k \in 1..Len(seen) : seen[k].id = entity.id
            THEN seen
            ELSE Append(seen, entity)

\* Variant of EntityRegistry.entities that stops after the first entity.
EntitiesFirstOnly(label_map) ==
    IF label_map = <<>> THEN <<>> ELSE <<label_map[1].value>>

\* EntityRegistry.entities
Entities(label_map) == EntitiesUpTo(label_map, Len(label_map))

\* The registry after the stage A loop has registered the first n of lites
\* (a lite entity the constructor rejects leaves the registry as it was).
RECURSIVE RegistryAfter(_, _)
RegistryAfter(lites, n) ==
    IF n = 0 THEN [by_ref_id |-> EmptyDict, by_label |-> <<>>]
    ELSE LET before == RegistryAfter(lites, n - 1)
             r == Register(before.by_ref_id, before.by_label, lites[n])
         IN [by_ref_id |-> r.by_ref_id, by_label |-> r.by_label]

-----------------------------------------------------------------------------
(* resolve_extraction *)

NoOutcome == [result |-> Nothing, exc |-> Nothing]

\* No validator or exporter call has been made.
NoCall == [fn |-> "none"]

\* The validators' client, the concurrent invocations and the producers are
\* absent.
ExtIdle ==
    /\ crm_entities = <<>>
    /\ log = <<>>
    /\ issued = <<>>
    /\ call = NoCall
    /\ invocations = <<>>
    /\ registries = <<>>
    /\ pending = <<>>
    /\ lock = 0

Init ==
    /\ lite_result \in LiteExtractionResults
    /\ by_ref_id = EmptyDict
    /\ by_label = <<>>
    /\ pc = "idle"
    /\ i = 1
    /\ j = 1
    /\ entities = <<>>
    /\ relationships = <<>>
    /\ warnings = <<>>
    /\ result = Nothing
    /\ exc = Nothing
    /\ run = 0
    /\ prev = NoOutcome
    /\ registered = {}
    /\ ret = Nothing
    /\ ExtIdle

\* The caller invokes resolve_extraction(lite_result); line 134 builds the registry.
Call ==
    /\ UNCHANGED extVars
    /\ pc \in {"idle", "returned", "raised"}
    /\ run < MaxRuns
    /\ run' = run + 1
    /\ prev' = [result |-> result, exc |-> exc]
    /\ by_ref_id' = EmptyDict
    /\ by_label' = <<>>
    /\ pc' = "stageA"
    /\ i' = 1
    /\ j' = 1
    /\ entities' = <<>>
    /\ relationships' = <<>>
    /\ warnings' = <<>>
    /\ result' = Nothing
    /\ exc' = Nothing
    /\ registered' = {}
    /\ UNCHANGED <<lite_result, ret>>

\* One iteration of the stage A loop: registry.register(lite_entity).
RegisterEntity ==
    /\ UNCHANGED extVars
    /\ pc = "stageA"
    /\ i <= Len(lite_result.entities)
    /\ LET r == Register(by_ref_id, by_label, lite_result.entities[i]) IN
        /\ by_ref_id' = r.by_ref_id
        /\ by_label' = r.by_label
        /\ IF r.raised # Nothing
           THEN pc' = "raised" /\ exc' = r.raised /\ i' = i
                /\ registered' = registered
           ELSE pc' = "stageA" /\ exc' = exc /\ i' = i + 1
                /\ registered' = registered \cup
                        {<<lite_result.entities[i].ref_id, lite_result.entities[i].label>>}
    /\ UNCHANGED <<lite_result, j, entities, relationships, warnings, result, run,
                   prev, ret>>

\* entities = registry.entities, once the stage A loop is exhausted.
CollectEntities ==
    /\ UNCHANGED extVars
    /\ pc = "stageA"
    /\ i > Len(lite_result.entities)
    /\ entities' = Entities(by_label)
    /\ pc' = "stageB"
    /\ UNCHANGED <<lite_result, by_ref_id, by_label, i, j, relationships, warnings,
                   result, exc, run, prev, registered, ret>>

\* Variant of the two warnings in which both messages say source_ref.
WarningSaysSource(side, ref) == [side |-> "source", ref |-> ref]

\* logger.warning("Broken relationship: <side>_ref %r not found ...", ref)
Warning(side, ref) == [side |-> side, ref |-> ref]

\* Variant of the stage B iteration that, on a broken link, adds a placeholder
\* entity for the missing ref to the entity list instead of only dropping.
ResolveRelationshipPlaceholder ==
    /\ UNCHANGED extVars
    /\ pc = "stageB"
    /\ j <= Len(lite_result.relationships)
    /\ LET lite_rel == lite_result.relationships[j]
           source == Resolve(by_ref_id, lite_rel.source_ref)
           target == Resolve(by_ref_id, lite_rel.target_ref)
           missing == IF source = Nothing THEN lite_rel.source_ref ELSE lite_rel.target_ref
       IN
        IF source = Nothing \/ target = Nothing
        THEN /\ warnings' = Append(warnings,
                    Warning(IF source = Nothing THEN "source" ELSE "target", missing))
             /\ entities' = Append(entities,
                    MakeExtractedEntity(LiteEntity(missing, "Widget", missing, None, {})))
             /\ j' = j + 1
             /\ UNCHANGED <<relationships, pc, exc>>
        ELSE /\ pc' = "raised"
             /\ exc' = Exception("AttributeError")
             /\ UNCHANGED <<relationships, warnings, j, entities>>
    /\ UNCHANGED <<lite_result, by_ref_id, by_label, i, result, run, prev,
                   registered, ret>>

\* One iteration of the stage B loop.
ResolveRelationship ==
    /\ UNCHANGED extVars
    /\ pc = "stageB"
    /\ j <= Len(lite_result.relationships)
    /\ LET lite_rel == lite_result.relationships[j]
           source == Resolve(by_ref_id, lite_rel.source_ref)
           target == Resolve(by_ref_id, lite_rel.target_ref)
       IN
        IF source = Nothing
        THEN /\ warnings' = Append(warnings, Warning("source", lite_rel.source_ref))
             /\ j' = j + 1
             /\ UNCHANGED <<relationships, pc, exc>>
        ELSE IF target = Nothing
        THEN /\ warnings' = Append(warnings, Warning("target", lite_rel.target_ref))
             /\ j' = j + 1
             /\ UNCHANGED <<relationships, pc, exc>>
        ELSE IF "source_snippet" \notin LiteRelationshipFields
        THEN \* lite_rel.source_snippet: LiteRelationship has no such attribute
             /\ pc' = "raised"
             /\ exc' = Exception("AttributeError")
             /\ UNCHANGED <<relationships, warnings, j>>
        ELSE /\ relationships' = Append(relationships,
                    [source_id      |-> source.id,
                     target_id      |-> target.id,
                     property_code  |-> lite_rel.property_code,
                     property_label |-> lite_rel.property_label,
                     confidence     |-> lite_rel.confidence,
                     source_text    |-> lite_rel.source_snippet])
             /\ j' = j + 1
             /\ UNCHANGED <<warnings, pc, exc>>
    /\ UNCHANGED <<lite_result, by_ref_id, by_label, i, entities, result, run, prev,
                   registered, ret>>

\* return ExtractionResult(entities=entities, relationships=relationships)
Return ==
    /\ UNCHANGED extVars
    /\ pc = "stageB"
    /\ j > Len(lite_result.relationships)
    /\ result' = [entities |-> entities, relationships |-> relationships]
    /\ pc' = "returned"
    /\ UNCHANGED <<lite_result, by_ref_id, by_label, i, j, entities, relationships,
                   warnings, exc, run, prev, registered, ret>>

Next == Call \/ RegisterEntity \/ CollectEntities \/ ResolveRelationship \/ Return

Spec == Init /\ [][Next]_vars

-----------------------------------------------------------------------------
(* A client of one EntityRegistry *)

InitRegistry ==
    /\ lite_result = [entities |-> <<>>, relationships |-> <<>>]
    /\ by_ref_id = EmptyDict
    /\ by_label = <<>>
    /\ pc = "client"
    /\ i = 1
    /\ j = 1
    /\ entities = <<>>
    /\ relationships = <<>>
    /\ warnings = <<>>
    /\ result = Nothing
    /\ exc = Nothing
    /\ run = 0
    /\ prev = NoOutcome
    /\ registered = {}
    /\ ret = Nothing
    /\ ExtIdle

\* registry.register(lite)
ClientRegister(lite) ==
    /\ UNCHANGED extVars
    /\ pc = "client"
    /\ LET r == Register(by_ref_id, by_label, lite) IN
        /\ by_ref_id' = r.by_ref_id
        /\ by_label' = r.by_label
        /\ ret' = IF r.raised # Nothing THEN r.raised ELSE r.ret
        /\ registered' = IF r.raised # Nothing
                         THEN registered
                         ELSE registered \cup {<<lite.ref_id, lite.label>>}
    /\ UNCHANGED <<lite_result, pc, i, j, entities, relationships, warnings, result,
                   exc, run, prev>>

\* registry = EntityRegistry()
NewRegistry ==
    /\ UNCHANGED extVars
    /\ pc = "client"
    /\ by_ref_id' = EmptyDict
    /\ by_label' = <<>>
    /\ ret' = Nothing
    /\ registered' = {}
    /\ UNCHANGED <<lite_result, pc, i, j, entities, relationships, warnings, result,
                   exc, run, prev>>

NextRegistry == (\E lite \in LiteEntities : ClientRegister(lite)) \/ NewRegistry

SpecRegistry == InitRegistry /\ [][NextRegistry]_vars

-----------------------------------------------------------------------------
(* Vocabulary of the properties *)

Ended == pc \in {"returned", "raised"}

LiteEnts == lite_result.entities
LiteRels == lite_result.relationships

\* ref is the ref_id of some lite entity of the batch.
InBatch(ref) == \E k \in 1..Len(LiteEnts) : LiteEnts[k].ref_id = ref

\* Both refs of the relationship are ref_ids of the batch.
BothInBatch(rel) == InBatch(rel.source_ref) /\ InBatch(rel.target_ref)

\* Every subtype hint of the batch is a string or absent.
HintsAreStrings ==
    \A k \in 1..Len(LiteEnts) : \A a \in LiteEnts[k].attributes : a[2] # None

IdsOf(es) == { es[k].id : k \in 1..Len(es) }

WithLabel(es, label) == { k \in 1..Len(es) : es[k].label = label }

-----------------------------------------------------------------------------
(* C1 *)

-----------------------------------------------------------------------------
(* C2 *)

\* C2: after any sequence of register calls, any two registered lite entities
\* with the same label resolve to the same entity id, and registry.entities
\* holds exactly one entity for each registered label.
C2_DedupInvariant ==
    /\ \A p \in registered, q \in registered :
          p[2] = q[2] => Resolve(by_ref_id, p[1]).id = Resolve(by_ref_id, q[1]).id
    /\ \A p \in registered :
          Cardinality(WithLabel(Entities(by_label), p[2])) = 1

-----------------------------------------------------------------------------
(* C5 *)

\* C5: resolve_extraction never raises on a well-formed LiteExtractionResult:
\* whatever the entity types, labels, ref_ids and relationship refs, the call
\* does not end in an exception.  (Batches whose subtype hints are strings.)
C5_NeverRaises == HintsAreStrings => pc # "raised"

-----------------------------------------------------------------------------
(* C3 *)

TriplesOf(rs) ==
    { <<rs[k].source_id, rs[k].property_code, rs[k].target_id>> : k \in 1..Len(rs) }

\* The ref_id of the first lite entity of the batch that carries the label.
FirstRefOf(label) ==
    LiteEnts[CHOOSE k \in 1..Len(LiteEnts) :
                /\ LiteEnts[k].label = label
                /\ \A m \in 1..(k - 1) : LiteEnts[m].label # label].ref_id

-----------------------------------------------------------------------------
(* C4 *)

\* C4: in a returned result, every relationship stems from a lite relationship
\* whose two refs are ref_ids of the batch (one with an unregistered ref never
\* appears), and the entity list is the one the entity list of the batch alone
\* determines, whatever relationships were dropped.
C4_BrokenLinksDropped ==
    pc = "returned" =>
        /\ result.entities = Entities(RegistryAfter(LiteEnts, Len(LiteEnts)).by_label)
        /\ Len(result.relationships)
              <= Cardinality({ k \in 1..Len(LiteRels) : BothInBatch(LiteRels[k]) })
        /\ \A m \in 1..Len(result.relationships) :
              \E k \in 1..Len(LiteRels) :
                  /\ BothInBatch(LiteRels[k])
                  /\ result.relationships[m].property_code = LiteRels[k].property_code
                  /\ result.relationships[m].source_id
                        = Resolve(by_ref_id, LiteRels[k].source_ref).id
                  /\ result.relationships[m].target_id
                        = Resolve(by_ref_id, LiteRels[k].target_ref).id

C4_Witness ==
    /\ pc = "returned"
    /\ Len(result.entities) >= 1
    /\ \E k \in 1..Len(LiteRels) :
          InBatch(LiteRels[k].source_ref) /\ ~InBatch(LiteRels[k].target_ref)
    /\ \E k \in 1..Len(LiteRels) : ~InBatch(LiteRels[k].source_ref)

-----------------------------------------------------------------------------
(* C6 *)

\* C6: no relationship is resolved before every lite entity of the batch has
\* been registered, and every relationship whose two refs are ref_ids of the
\* batch is resolved into the result.  (Batches whose subtype hints are strings.)
C6_TwoStageSequence ==
    /\ (pc = "stageB" \/ j > 1 \/ warnings # <<>> \/ relationships # <<>>) =>
          i > Len(LiteEnts)
    /\ (Ended /\ HintsAreStrings) =>
          /\ result # Nothing
          /\ Len(result.relationships)
                = Cardinality({ k \in 1..Len(LiteRels) : BothInBatch(LiteRels[k]) })

-----------------------------------------------------------------------------
(* C9 *)

\* C9: the output relationship list is the input relationship list without the
\* unresolvable ones, in input order, each with its property_code unchanged and
\* its endpoints resolved; duplicates are kept.  (Batches whose subtype hints
\* are strings.)
C9_OutputIsFilteredInput ==
    (Ended /\ HintsAreStrings) =>
        LET kept == SelectSeq(LiteRels, BothInBatch) IN
        /\ result # Nothing
        /\ Len(result.relationships) = Len(kept)
        /\ \A k \in 1..Len(kept) :
              /\ result.relationships[k].property_code = kept[k].property_code
              /\ result.relationships[k].source_id
                    = Resolve(by_ref_id, kept[k].source_ref).id
              /\ result.relationships[k].target_id
                    = Resolve(by_ref_id, kept[k].target_ref).id

-----------------------------------------------------------------------------
(* C10 *)

\* The warnings due for one relationship: one naming the source ref when it is
\* no ref_id of the batch, else one naming the target ref when that is none,
\* else none.
WarningsDue(rel) ==
    IF ~InBatch(rel.source_ref) THEN <<[side |-> "source", ref |-> rel.source_ref]>>
    ELSE IF ~InBatch(rel.target_ref) THEN <<[side |-> "target", ref |-> rel.target_ref]>>
    ELSE <<>>

RECURSIVE WarningsDueUpTo(_, _)
WarningsDueUpTo(rels, n) ==
    IF n = 0 THEN <<>> ELSE WarningsDueUpTo(rels, n - 1) \o WarningsDue(rels[n])

\* C10: the warnings emitted so far are exactly one per dropped relationship, in
\* order, each naming the unresolved ref and its side, and none for any other
\* relationship; a drop does not stop the loop: a returned call has gone through
\* every relationship.
C10_DropsAreReported ==
    /\ warnings = WarningsDueUpTo(LiteRels, j - 1)
    /\ pc = "returned" => j = Len(LiteRels) + 1

C10_Witness ==
    /\ pc = "returned"
    /\ \E k \in 1..Len(warnings) : warnings[k].side = "source"
    /\ \E k \in 1..Len(warnings) :
          warnings[k].side = "target" /\ warnings[k].ref = MissingRef

-----------------------------------------------------------------------------
(* C7 *)

\* C7: a register call with an already registered label creates no entity,
\* returns the existing entity, leaves every registered entity as it was, and
\* changes the ref_id map at the registered ref_id only, which now resolves to
\* the existing entity.
C7_FirstSeenWins ==
    [][\A lite \in LiteEntities :
          (ClientRegister(lite) /\ LabelIndex(by_label, lite.label) # 0) =>
              LET existing == by_label[LabelIndex(by_label, lite.label)].value IN
              /\ by_label' = by_label
              /\ Entities(by_label') = Entities(by_label)
              /\ ret' = existing
              /\ DOMAIN by_ref_id' = (DOMAIN by_ref_id) \cup {lite.ref_id}
              /\ by_ref_id'[lite.ref_id] = existing
              /\ \A r \in (DOMAIN by_ref_id) \ {lite.ref_id} :
                    by_ref_id'[r] = by_ref_id[r]]_vars

\* An alias: a ref_id resolving to an entity created under another ref_id,
\* returned by the last register call.
C7_Witness ==
    \E r \in DOMAIN by_ref_id :
        /\ by_ref_id[r].id # r \o ":" \o by_ref_id[r].label
        /\ ret = by_ref_id[r]
        /\ by_ref_id[r].class_code = "E5"
        /\ by_ref_id[r].description = "d"

-----------------------------------------------------------------------------
(* C8 *)

ExpectedClassCode(entity_type) ==
    CASE entity_type = "Person"   -> "E21"
      [] entity_type = "Event"    -> "E5"
      [] entity_type = "Place"    -> "E53"
      [] entity_type = "Object"   -> "E22"
      [] entity_type = "TimeSpan" -> "E52"
      [] OTHER                    -> "E55"

\* C8: a register call that creates an entity gives it the class_code fixed by
\* the entity_type (Person E21, Event E5, Place E53, Object E22, TimeSpan E52,
\* anything else E55), and an entity_type outside the five never fails the call.
C8_TypeMapping ==
    [][\A lite \in LiteEntities :
          (ClientRegister(lite) /\ LabelIndex(by_label, lite.label) = 0) =>
              /\ ret'.cls # "ValidationError" =>
                    /\ ret'.class_code = ExpectedClassCode(lite.entity_type)
                    /\ LabelIndex(by_label', lite.label) = Len(by_label) + 1
                    /\ by_label'[Len(by_label')].value = ret'
              /\ lite.entity_type \notin {"Person", "Event", "Place", "Object", "TimeSpan"}
                    => ret'.cls = "ExtractedEntity"]_vars

C8_Witness ==
    /\ Len(by_label) = 2
    /\ by_label[1].value.class_code = "E55"
    /\ by_label[2].value.class_code = "E53"
    /\ ret = by_label[2].value

-----------------------------------------------------------------------------
(* Schema registry: infoextract_cidoc.properties (P, DOMAIN) *)

MaxCrm == 2
MaxValues == 2

\* A registry string the code takes apart is the sequence of its characters.
\* P, in the order of the generated dict.  P4, P7, P108 and P108i are the
\* entries the unit tests pin down; P53, P79 and P80 are the other shortcut
\* properties; P901, P902 and P903 stand for entries of the remaining
\* quantifier forms: "1..1", "1..*" and one without the range separator.
P == <<
    [code |-> "P4", domain |-> "E2", range |-> "E52",
     quantifier |-> <<"0", ".", ".", "1">>, aliases |-> <<"HAS_TIME_SPAN">>],
    [code |-> "P7", domain |-> "E5", range |-> "E53",
     quantifier |-> <<"0", ".", ".", "*">>, aliases |-> <<"TOOK_PLACE_AT">>],
    [code |-> "P53", domain |-> "E18", range |-> "E53",
     quantifier |-> <<"0", ".", ".", "*">>, aliases |-> <<"HAS_CURRENT_LOCATION">>],
    [code |-> "P79", domain |-> "E52", range |-> "E62",
     quantifier |-> <<"0", ".", ".", "1">>, aliases |-> <<"BEGINNING_IS_QUALIFIED_BY">>],
    [code |-> "P80", domain |-> "E52", range |-> "E62",
     quantifier |-> <<"0", ".", ".", "1">>, aliases |-> <<"END_IS_QUALIFIED_BY">>],
    [code |-> "P108", domain |-> "E22", range |-> "E12",
     quantifier |-> <<"0", ".", ".", "1">>, aliases |-> <<"WAS_PRODUCED_BY">>],
    [code |-> "P108i", domain |-> "E12", range |-> "E22",
     quantifier |-> <<"0", ".", ".", "*">>, aliases |-> <<"HAS_PRODUCED">>],
    [code |-> "P901", domain |-> "E21", range |-> "E21",
     quantifier |-> <<"1", ".", ".", "1">>, aliases |-> <<"HAS_EXACTLY_ONE">>],
    [code |-> "P902", domain |-> "E21", range |-> "E18",
     quantifier |-> <<"1", ".", ".", "*">>, aliases |-> <<"HAS_AT_LEAST_ONE">>],
    [code |-> "P903", domain |-> "E53", range |-> "E53",
     quantifier |-> <<"0", "-", "1">>, aliases |-> <<"HAS_MALFORMED">>] >>

\* A property code no entry of P carries.
UnknownCode == "P999"

\* The codes the client of the validators asks about.
PropertyCodes == {"P4", "P7", "P108", "P108i", "P901", "P902", "P903", UnknownCode}

\* p_code in P
InP(p_code) == \E k \in 1..Len(P) : P[k].code = p_code

\* P[p_code]
PropertyInfo(p_code) == P[CHOOSE k \in 1..Len(P) : P[k].code = p_code]

\* DOMAIN.get(class_code, []): the codes whose domain is the class, in P's order.
RECURSIVE DomainLookupUpTo(_, _)
DomainLookupUpTo(class_code, n) ==
    IF n = 0 THEN <<>>
    ELSE IF P[n].domain = class_code
         THEN Append(DomainLookupUpTo(class_code, n - 1), P[n].code)
         ELSE DomainLookupUpTo(class_code, n - 1)

DomainLookup(class_code) == DomainLookupUpTo(class_code, Len(P))

-----------------------------------------------------------------------------
(* CRM entities: models/base.py, models/generated/e_classes.py *)

UuidV(hex) == [cls |-> "UUID", hex |-> hex]
ListV(items) == [cls |-> "list", items |-> items]
DictV(items) == [cls |-> "dict", items |-> items]

Uuids == {"u1", "u2", "u3"}

\* A CRM entity with the shortcut fields its class declares.
CrmEntity(id, class_code, fields) ==
    [id |-> id, class_code |-> class_code, fields |-> fields]

EE22_HumanMadeObject(id, current_location, produced_by) ==
    CrmEntity(id, "E22", [f \in {"current_location", "produced_by"} |->
                            IF f = "produced_by" THEN produced_by ELSE current_location])

EE21_Person(id, current_location) ==
    CrmEntity(id, "E21", [f \in {"current_location"} |-> current_location])

EE5_Event(id, class_code, timespan, took_place_at) ==
    CrmEntity(id, class_code, [f \in {"timespan", "took_place_at"} |->
                            IF f = "timespan" THEN timespan ELSE took_place_at])

EE52_TimeSpan(id, begin_of_the_begin, end_of_the_end) ==
    CrmEntity(id, "E52", [f \in {"begin_of_the_begin", "end_of_the_end"} |->
                            IF f = "begin_of_the_begin" THEN begin_of_the_begin
                            ELSE end_of_the_end])

EE53_Place(id) == CrmEntity(id, "E53", [f \in {} |-> Nothing])

CrmPool ==
    { EE22_HumanMadeObject("u1", Nothing, pb) : pb \in {Nothing, UuidV("u2")} }
    \cup { EE22_HumanMadeObject("u2", UuidV("u3"), Nothing),
           EE5_Event("u2", "E12", UuidV("u3"), Nothing),
           EE21_Person("u3", Nothing),
           EE53_Place("u3") }

Severities == {"warn", "raise", "ignore"}

-----------------------------------------------------------------------------------------------------------------------------------------------------
(* validators/quantifiers.py *)

\* What a call did besides returning: its logging records, the warnings it
\* issued, and the exception that left it (Nothing if it returned).
NoEffect == [log |-> <<>>, issued |-> <<>>, exc |-> Nothing]

LogRecord(level, msg) == [level |-> level, msg |-> msg]

\* logger.<level>(msg)
Logged(level, msg) == [log |-> <<LogRecord(level, msg)>>, issued |-> <<>>, exc |-> Nothing]

\* raise cls(message)
Raised(cls, message) ==
    [log |-> <<>>, issued |-> <<>>, exc |-> [cls |-> cls, message |-> message]]

\* e1 followed, if e1 returned, by e2.
Then(e1, e2) ==
    IF e1.exc # Nothing THEN e1
    ELSE [log |-> e1.log \o e2.log, issued |-> e1.issued \o e2.issued, exc |-> e2.exc]

Digits == {"0", "1", "2", "3", "4", "5", "6", "7", "8", "9"}

DigitValue(c) ==
    CASE c = "0" -> 0 [] c = "1" -> 1 [] c = "2" -> 2 [] c = "3" -> 3 [] c = "4" -> 4
      [] c = "5" -> 5 [] c = "6" -> 6 [] c = "7" -> 7 [] c = "8" -> 8 [] c = "9" -> 9

\* int(part) succeeds on a non-empty run of decimal digits.
IsInt(part) == Len(part) > 0 /\ \A k \in 1..Len(part) : part[k] \in Digits

RECURSIVE IntOf(_)
IntOf(part) ==
    IF Len(part) = 0 THEN 0
    ELSE 10 * IntOf(SubSeq(part, 1, Len(part) - 1)) + DigitValue(part[Len(part)])

\* ".." in quantifier
HasSeparator(quantifier) ==
    \E k \in 1..(Len(quantifier) - 1) : quantifier[k] = "." /\ quantifier[k + 1] = "."

\* quantifier.split(".."), scanning from position k with the part cur open.
RECURSIVE SplitFrom(_, _, _)
SplitFrom(quantifier, k, cur) ==
    IF k > Len(quantifier) THEN <<cur>>
    ELSE IF k < Len(quantifier) /\ quantifier[k] = "." /\ quantifier[k + 1] = "."
         THEN <<cur>> \o SplitFrom(quantifier, k + 2, <<>>)
         ELSE SplitFrom(quantifier, k + 1, Append(cur, quantifier[k]))

\* raise ValueError(...) out of _parse_quantifier
InvalidQuantifier(text, quantifier) ==
    [exc |-> [cls |-> "ValueError",
              message |-> [text |-> text, quantifier |-> quantifier]],
     min_count |-> 0, max_is_none |-> TRUE, max_count |-> 0]

\* (min_count, max_count) returned by _parse_quantifier; max_count None for "*".
Parsed(min_count, max_is_none, max_count) ==
    [exc |-> Nothing, min_count |-> min_count, max_is_none |-> max_is_none,
     max_count |-> max_count]

\* _parse_quantifier once the split is made, with the two parts exchanged.
ParsePartsSwapped(quantifier, parts) ==
    IF Len(parts) # 2 THEN InvalidQuantifier("too many values to unpack", quantifier)
    ELSE IF ~IsInt(parts[1]) THEN InvalidQuantifier("invalid literal for int()", quantifier)
    ELSE IF parts[2] = <<"*">> THEN Parsed(0, FALSE, IntOf(parts[1]))
    ELSE IF ~IsInt(parts[2]) THEN InvalidQuantifier("invalid literal for int()", quantifier)
    ELSE Parsed(IntOf(parts[2]), FALSE, IntOf(parts[1]))

\* _parse_quantifier once the split is made: the unpacking and the two int().
ParseParts(quantifier, parts) ==
    IF Len(parts) # 2 THEN InvalidQuantifier("too many values to unpack", quantifier)
    ELSE IF ~IsInt(parts[1]) THEN InvalidQuantifier("invalid literal for int()", quantifier)
    ELSE IF parts[2] = <<"*">> THEN Parsed(IntOf(parts[1]), TRUE, 0)
    ELSE IF ~IsInt(parts[2]) THEN InvalidQuantifier("invalid literal for int()", quantifier)
    ELSE Parsed(IntOf(parts[1]), FALSE, IntOf(parts[2]))

\* _parse_quantifier
ParseQuantifier(quantifier) ==
    IF ~HasSeparator(quantifier)
    THEN InvalidQuantifier("Invalid quantifier format", quantifier)
    ELSE ParseParts(quantifier, SplitFrom(quantifier, 1, <<>>))

\* warnings.warn(full_message, CRMValidationWarning): under the interpreter's
\* default filters the warning is issued and the call returns.
Warn(full_message) ==
    [log |-> <<>>,
     issued |-> <<[category |-> "CRMValidationWarning", message |-> full_message]>>,
     exc |-> Nothing]

\* The severity switch of _handle_violation, silent at severity warn.
HandleFullMessageSilently(full_message, severity) ==
    IF severity = "raise" THEN Raised("CRMValidationError", full_message)
    ELSE NoEffect

\* The severity switch of _handle_violation (both modules have the same).
HandleFullMessage(full_message, severity) ==
    IF severity = "raise" THEN Raised("CRMValidationError", full_message)
    ELSE IF severity = "warn"
    THEN Then(Logged("WARNING", full_message), Warn(full_message))
    ELSE NoEffect

\* quantifiers._handle_violation
HandleViolation(message, severity, entity) ==
    HandleFullMessage([message |-> message, entity |-> entity.id,
                       class |-> entity.class_code],
                      severity)

\* len(values) if values else 0
ActualCount(values) ==
    IF values = Nothing THEN 0 ELSE Len(values.items)

\* The two cardinality tests of enforce_quantifier.
CheckCardinality(entity, p_code, severity, parsed, actual_count) ==
    IF parsed.exc # Nothing
    THEN [log |-> <<>>, issued |-> <<>>, exc |-> parsed.exc]
    ELSE Then(IF actual_count < parsed.min_count
              THEN HandleViolation([text |-> "requires at least", p_code |-> p_code,
                                    bound |-> parsed.min_count, got |-> actual_count],
                                   severity, entity)
              ELSE NoEffect,
              IF ~parsed.max_is_none /\ actual_count > parsed.max_count
              THEN HandleViolation([text |-> "allows at most", p_code |-> p_code,
                                    bound |-> parsed.max_count, got |-> actual_count],
                                   severity, entity)
              ELSE NoEffect)

\* Variant of enforce_quantifier without the domain test.
EnforceWithInfoAnyClass(entity, p_code, values, severity, info) ==
    CheckCardinality(entity, p_code, severity, ParseQuantifier(info.quantifier),
                     ActualCount(values))

\* enforce_quantifier from the registry entry on: the domain test, the parse
\* and the cardinality tests.
EnforceWithInfo(entity, p_code, values, severity, info) ==
    IF entity.class_code # info.domain
    THEN Logged("INFO", [text |-> "does not match domain", class |-> entity.class_code,
                         domain |-> info.domain, p_code |-> p_code])
    ELSE CheckCardinality(entity, p_code, severity, ParseQuantifier(info.quantifier),
                          ActualCount(values))

\* P[p_code] without the membership test: a KeyError.
UnknownPropertyCodeFatal(p_code) == Raised("KeyError", p_code)

\* logger.warning("Unknown property code: %s", p_code); return
UnknownPropertyCode(p_code) ==
    Logged("WARNING", [text |-> "Unknown property code", p_code |-> p_code])

\* enforce_quantifier
EnforceQuantifier(entity, p_code, values, severity) ==
    IF severity = "ignore" THEN NoEffect
    ELSE IF ~InP(p_code) THEN UnknownPropertyCode(p_code)
    ELSE EnforceWithInfo(entity, p_code, values, severity, PropertyInfo(p_code))

\* p_to_field of _get_property_values and _get_property_target_ids
PToField ==
    [p \in {"P1", "P2", "P3", "P4", "P7", "P11", "P53", "P79", "P80", "P108"} |->
        CASE p = "P1" -> "identifiers"
          [] p = "P2" -> "type"
          [] p = "P3" -> "notes"
          [] p = "P4" -> "timespan"
          [] p = "P7" -> "took_place_at"
          [] p = "P11" -> "participants"
          [] p = "P53" -> "current_location"
          [] p = "P79" -> "begin_of_the_begin"
          [] p = "P80" -> "end_of_the_end"
          [] p = "P108" -> "produced_by"]

\* The field value as a list: [] for None, the list itself, [value] otherwise.
AsList(value) ==
    IF value = Nothing THEN ListV(<<>>)
    ELSE IF value.cls = "list" THEN value
    ELSE ListV(<<value>>)

\* getattr(entity, p_to_field[p_code]), None when the code or the field is missing.
FieldOf(entity, p_code) ==
    IF p_code \notin DOMAIN PToField THEN Nothing
    ELSE IF PToField[p_code] \in DOMAIN entity.fields
         THEN entity.fields[PToField[p_code]]
         ELSE Nothing

\* _get_property_values
GetPropertyValues(entity, p_code) == AsList(FieldOf(entity, p_code))

\* str(e) of the exception e.
StrOf(e) == e.message

\* The except clauses of validate_entity_quantifiers / validate_entity_typing:
\* the messages and records so far, extended by the outcome e of the try block
\* for p_code.
Collect(before, p_code, e, text) ==
    [messages |-> IF e.exc = Nothing THEN before.messages
                  ELSE IF e.exc.cls \in {"CRMValidationError", "CRMValidationWarning"}
                  THEN Append(before.messages, StrOf(e.exc))
                  ELSE Append(before.messages,
                              [text |-> text, p_code |-> p_code, error |-> StrOf(e.exc)]),
     log |-> IF e.exc = Nothing \/ e.exc.cls \in {"CRMValidationError",
                                                  "CRMValidationWarning"}
             THEN before.log \o e.log
             ELSE before.log \o e.log \o
                  <<LogRecord("ERROR", [text |-> text, p_code |-> p_code])>>,
     issued |-> before.issued \o e.issued]

\* The try block of validate_entity_quantifiers for p_code.
TryQuantifier(entity, p_code, severity) ==
    EnforceQuantifier(entity, p_code, GetPropertyValues(entity, p_code), severity)

\* The loop of validate_entity_quantifiers over the first n of the codes.
RECURSIVE ValidateEntityQuantifiersUpTo(_, _, _, _)
ValidateEntityQuantifiersUpTo(entity, severity, applicable_properties, n) ==
    IF n = 0 THEN [messages |-> <<>>, log |-> <<>>, issued |-> <<>>]
    ELSE Collect(ValidateEntityQuantifiersUpTo(entity, severity,
                                               applicable_properties, n - 1),
                 applicable_properties[n],
                 TryQuantifier(entity, applicable_properties[n], severity),
                 "Error validating property")

\* validate_entity_quantifiers
ValidateEntityQuantifiers(entity, severity) ==
    ValidateEntityQuantifiersUpTo(entity, severity, DomainLookup(entity.class_code),
                                  Len(DomainLookup(entity.class_code)))

\* if messages: results[key] = messages
Keep(before, key, v) ==
    [results |-> IF Len(v.messages) > 0 THEN DictPut(before.results, key, v.messages)
                 ELSE before.results,
     log |-> before.log \o v.log,
     issued |-> before.issued \o v.issued]

\* The loop of validate_batch_quantifiers over the first n entities.
RECURSIVE ValidateBatchQuantifiersUpTo(_, _, _)
ValidateBatchQuantifiersUpTo(ents, severity, n) ==
    IF n = 0 THEN [results |-> EmptyDict, log |-> <<>>, issued |-> <<>>]
    ELSE Keep(ValidateBatchQuantifiersUpTo(ents, severity, n - 1), ents[n].id,
              ValidateEntityQuantifiers(ents[n], severity))

\* validate_batch_quantifiers
ValidateBatchQuantifiers(ents, severity) ==
    ValidateBatchQuantifiersUpTo(ents, severity, Len(ents))

-----------------------------------------------------------------------------
(* validators/typing_rules.py *)

inheritance_map ==
    [c \in {
      "E2", "E3", "E4", "E5", "E6", "E7", "E8", "E9", "E10", "E11", "E12",
      "E13", "E14", "E15", "E16", "E17", "E18", "E19", "E20", "E21", "E22",
      "E23", "E24", "E25", "E26", "E27", "E28", "E29", "E30", "E31", "E32",
      "E33", "E34", "E35", "E36", "E37", "E38", "E39", "E40", "E41", "E42",
      "E43", "E44", "E45", "E46", "E47", "E48", "E49", "E50", "E51", "E52",
      "E53", "E54", "E55", "E56", "E57", "E58", "E59", "E60", "E61", "E62",
      "E63", "E64", "E65", "E66", "E67", "E68", "E69", "E70", "E71", "E72",
      "E73", "E74", "E75", "E76", "E77", "E78", "E79", "E80", "E81", "E82",
      "E83", "E84", "E85", "E86", "E87", "E88", "E89", "E90", "E91", "E92",
      "E93", "E94", "E95", "E96", "E97", "E98", "E99" } |->
        CASE c = "E2" -> <<"E1">>
          [] c = "E3" -> <<"E2", "E1">>
          [] c = "E4" -> <<"E2", "E1">>
          [] c = "E5" -> <<"E2", "E1">>
          [] c = "E6" -> <<"E5", "E2", "E1">>
          [] c = "E7" -> <<"E5", "E2", "E1">>
          [] c = "E8" -> <<"E7", "E5", "E2", "E1">>
          [] c = "E9" -> <<"E7", "E5", "E2", "E1">>
          [] c = "E10" -> <<"E7", "E5", "E2", "E1">>
          [] c = "E11" -> <<"E7", "E5", "E2", "E1">>
          [] c = "E12" -> <<"E7", "E5", "E2", "E1">>
          [] c = "E13" -> <<"E7", "E5", "E2", "E1">>
          [] c = "E14" -> <<"E13", "E7", "E5", "E2", "E1">>
          [] c = "E15" -> <<"E13", "E7", "E5", "E2", "E1">>
          [] c = "E16" -> <<"E13", "E7", "E5", "E2", "E1">>
          [] c = "E17" -> <<"E13", "E7", "E5", "E2", "E1">>
          [] c = "E18" -> <<"E1">>
          [] c = "E19" -> <<"E18", "E1">>
          [] c = "E20" -> <<"E19", "E18", "E1">>
          [] c = "E21" -> <<"E20", "E19", "E18", "E1">>
          [] c = "E22" -> <<"E19", "E18", "E1">>
          [] c = "E23" -> <<"E1">>
          [] c = "E24" -> <<"E18", "E1">>
          [] c = "E25" -> <<"E24", "E18", "E1">>
          [] c = "E26" -> <<"E18", "E1">>
          [] c = "E27" -> <<"E26", "E18", "E1">>
          [] c = "E28" -> <<"E23", "E1">>
          [] c = "E29" -> <<"E28", "E23", "E1">>
          [] c = "E30" -> <<"E28", "E23", "E1">>
          [] c = "E31" -> <<"E28", "E23", "E1">>
          [] c = "E32" -> <<"E31", "E28", "E23", "E1">>
          [] c = "E33" -> <<"E28", "E23", "E1">>
          [] c = "E34" -> <<"E33", "E28", "E23", "E1">>
          [] c = "E35" -> <<"E33", "E28", "E23", "E1">>
          [] c = "E36" -> <<"E28", "E23", "E1">>
          [] c = "E37" -> <<"E36", "E28", "E23", "E1">>
          [] c = "E38" -> <<"E36", "E28", "E23", "E1">>
          [] c = "E39" -> <<"E1">>
          [] c = "E40" -> <<"E39", "E1">>
          [] c = "E41" -> <<"E28", "E23", "E1">>
          [] c = "E42" -> <<"E28", "E23", "E1">>
          [] c = "E43" -> <<"E1">>
          [] c = "E44" -> <<"E41", "E28", "E23", "E1">>
          [] c = "E45" -> <<"E44", "E41", "E28", "E23", "E1">>
          [] c = "E46" -> <<"E43", "E1">>
          [] c = "E47" -> <<"E28", "E23", "E1">>
          [] c = "E48" -> <<"E44", "E41", "E28", "E23", "E1">>
          [] c = "E49" -> <<"E41", "E28", "E23", "E1">>
          [] c = "E50" -> <<"E49", "E41", "E28", "E23", "E1">>
          [] c = "E51" -> <<"E45", "E44", "E41", "E28", "E23", "E1">>
          [] c = "E52" -> <<"E1">>
          [] c = "E53" -> <<"E43", "E1">>
          [] c = "E54" -> <<"E28", "E23", "E1">>
          [] c = "E55" -> <<"E28", "E23", "E1">>
          [] c = "E56" -> <<"E55", "E28", "E23", "E1">>
          [] c = "E57" -> <<"E55", "E28", "E23", "E1">>
          [] c = "E58" -> <<"E55", "E28", "E23", "E1">>
          [] c = "E59" -> <<"E1">>
          [] c = "E60" -> <<"E59", "E1">>
          [] c = "E61" -> <<"E59", "E1">>
          [] c = "E62" -> <<"E59", "E1">>
          [] c = "E63" -> <<"E5", "E2", "E1">>
          [] c = "E64" -> <<"E5", "E2", "E1">>
          [] c = "E65" -> <<"E63", "E5", "E2", "E1">>
          [] c = "E66" -> <<"E63", "E5", "E2", "E1">>
          [] c = "E67" -> <<"E66", "E63", "E5", "E2", "E1">>
          [] c = "E68" -> <<"E64", "E5", "E2", "E1">>
          [] c = "E69" -> <<"E64", "E5", "E2", "E1">>
          [] c = "E70" -> <<"E1">>
          [] c = "E71" -> <<"E70", "E1">>
          [] c = "E72" -> <<"E70", "E1">>
          [] c = "E73" -> <<"E70", "E1">>
          [] c = "E74" -> <<"E39", "E1">>
          [] c = "E75" -> <<"E41", "E28", "E23", "E1">>
          [] c = "E76" -> <<"E42", "E28", "E23", "E1">>
          [] c = "E77" -> <<"E1">>
          [] c = "E78" -> <<"E77", "E1">>
          [] c = "E79" -> <<"E11", "E7", "E5", "E2", "E1">>
          [] c = "E80" -> <<"E11", "E7", "E5", "E2", "E1">>
          [] c = "E81" -> <<"E11", "E7", "E5", "E2", "E1">>
          [] c = "E82" -> <<"E75", "E41", "E28", "E23", "E1">>
          [] c = "E83" -> <<"E65", "E63", "E5", "E2", "E1">>
          [] c = "E84" -> <<"E73", "E70", "E1">>
          [] c = "E85" -> <<"E7", "E5", "E2", "E1">>
          [] c = "E86" -> <<"E7", "E5", "E2", "E1">>
          [] c = "E87" -> <<"E7", "E5", "E2", "E1">>
          [] c = "E88" -> <<"E28", "E23", "E1">>
          [] c = "E89" -> <<"E88", "E28", "E23", "E1">>
          [] c = "E90" -> <<"E28", "E23", "E1">>
          [] c = "E91" -> <<"E90", "E28", "E23", "E1">>
          [] c = "E92" -> <<"E1">>
          [] c = "E93" -> <<"E92", "E1">>
          [] c = "E94" -> <<"E92", "E1">>
          [] c = "E95" -> <<"E59", "E1">>
          [] c = "E96" -> <<"E92", "E1">>
          [] c = "E97" -> <<"E28", "E23", "E1">>
          [] c = "E98" -> <<"E55", "E28", "E23", "E1">>
          [] c = "E99" -> <<"E55", "E28", "E23", "E1">>]

\* inheritance_map.get(entity_class, [])
InheritanceChain(entity_class) ==
    IF entity_class \in DOMAIN inheritance_map THEN inheritance_map[entity_class]
    ELSE <<>>

\* _is_class_compatible with the two classes exchanged in the chain test.
IsClassCompatibleUpward(entity_class, expected_class) ==
    \/ entity_class = expected_class
    \/ \E k \in 1..Len(InheritanceChain(expected_class)) :
          InheritanceChain(expected_class)[k] = entity_class

\* _is_class_compatible
IsClassCompatible(entity_class, expected_class) ==
    \/ entity_class = expected_class
    \/ \E k \in 1..Len(InheritanceChain(entity_class)) :
          InheritanceChain(entity_class)[k] = expected_class

\* typing_rules._handle_violation
HandleTypingViolation(message, severity, source_entity, target_entity, p_code) ==
    HandleFullMessage([message |-> message, property |-> p_code,
                       source |-> source_entity.id, target |-> target_entity.id],
                      severity)

\* One side of validate_domain_range_alignment: entity against the expected class.
CheckSide(side, entity, expected, severity, source_entity, target_entity, p_code) ==
    IF ~IsClassCompatible(entity.class_code, expected)
    THEN HandleTypingViolation([side |-> side, entity |-> entity.id,
                                class |-> entity.class_code, expected |-> expected,
                                p_code |-> p_code],
                               severity, source_entity, target_entity, p_code)
    ELSE NoEffect

\* Variant of validate_domain_range_alignment that tests the range first.
AlignWithInfoRangeFirst(source_entity, target_entity, p_code, severity, property_info) ==
    Then(CheckSide("range", target_entity, property_info.range, severity,
                   source_entity, target_entity, p_code),
         CheckSide("domain", source_entity, property_info.domain, severity,
                   source_entity, target_entity, p_code))

\* validate_domain_range_alignment from the registry entry on: the domain test,
\* then the range test.
AlignWithInfo(source_entity, target_entity, p_code, severity, property_info) ==
    Then(CheckSide("domain", source_entity, property_info.domain, severity,
                   source_entity, target_entity, p_code),
         CheckSide("range", target_entity, property_info.range, severity,
                   source_entity, target_entity, p_code))

\* validate_domain_range_alignment
ValidateDomainRangeAlignment(source_entity, target_entity, p_code, severity) ==
    IF severity = "ignore" THEN NoEffect
    ELSE IF ~InP(p_code) THEN UnknownPropertyCode(p_code)
    ELSE AlignWithInfo(source_entity, target_entity, p_code, severity,
                       PropertyInfo(p_code))

\* str(value) of a UUID: its hex form.
StrOfUuid(value) == value.hex

\* [str(v) for v in values]
StrOfEach(values) == [k \in 1..Len(values.items) |-> StrOfUuid(values.items[k])]

\* _get_property_target_ids
GetPropertyTargetIds(entity, p_code) == StrOfEach(AsList(FieldOf(entity, p_code)))

\* entity_lookup = {str(entity.id): entity for entity in entities}
RECURSIVE EntityLookupUpTo(_, _)
EntityLookupUpTo(ents, n) ==
    IF n = 0 THEN EmptyDict
    ELSE DictPut(EntityLookupUpTo(ents, n - 1), ents[n].id, ents[n])

EntityLookup(ents) == EntityLookupUpTo(ents, Len(ents))

\* The body of the target loop of validate_entity_typing.
ValidateTarget(entity, entity_lookup, p_code, target_id, severity) ==
    IF target_id \in DOMAIN entity_lookup
    THEN ValidateDomainRangeAlignment(entity, entity_lookup[target_id], p_code, severity)
    ELSE Logged("INFO", [text |-> "Target entity not found", target |-> target_id,
                         p_code |-> p_code])

\* The try block of validate_entity_typing for p_code: the loop over the first
\* n target ids.
RECURSIVE TryTyping(_, _, _, _, _, _)
TryTyping(entity, entity_lookup, p_code, target_ids, severity, n) ==
    IF n = 0 THEN NoEffect
    ELSE Then(TryTyping(entity, entity_lookup, p_code, target_ids, severity, n - 1),
              ValidateTarget(entity, entity_lookup, p_code, target_ids[n], severity))

\* The loop of validate_entity_typing over the first n of the codes.
RECURSIVE ValidateEntityTypingUpTo(_, _, _, _, _)
ValidateEntityTypingUpTo(entity, entity_lookup, severity, applicable_properties, n) ==
    IF n = 0 THEN [messages |-> <<>>, log |-> <<>>, issued |-> <<>>]
    ELSE Collect(ValidateEntityTypingUpTo(entity, entity_lookup, severity,
                                          applicable_properties, n - 1),
                 applicable_properties[n],
                 TryTyping(entity, entity_lookup, applicable_properties[n],
                           GetPropertyTargetIds(entity, applicable_properties[n]),
                           severity,
                           Len(GetPropertyTargetIds(entity, applicable_properties[n]))),
                 "Error validating typing for property")

\* validate_entity_typing
ValidateEntityTyping(entity, entity_lookup, severity) ==
    ValidateEntityTypingUpTo(entity, entity_lookup, severity,
                             DomainLookup(entity.class_code),
                             Len(DomainLookup(entity.class_code)))

\* The loop of validate_batch_typing over the first n entities.
RECURSIVE ValidateBatchTypingUpTo(_, _, _)
ValidateBatchTypingUpTo(ents, severity, n) ==
    IF n = 0 THEN [results |-> EmptyDict, log |-> <<>>, issued |-> <<>>]
    ELSE Keep(ValidateBatchTypingUpTo(ents, severity, n - 1), ents[n].id,
              ValidateEntityTyping(ents[n], EntityLookup(ents), severity))

\* validate_batch_typing
ValidateBatchTyping(ents, severity) == ValidateBatchTypingUpTo(ents, severity, Len(ents))

-----
(* A client of the validators *)

\* The pipeline, the registry client, the concurrent invocations and the
\* producers are absent.
InitCrm ==
    /\ lite_result = [entities |-> <<>>, relationships |-> <<>>]
    /\ by_ref_id = EmptyDict
    /\ by_label = <<>>
    /\ pc = "validators"
    /\ i = 1
    /\ j = 1
    /\ entities = <<>>
    /\ relationships = <<>>
    /\ warnings = <<>>
    /\ result = Nothing
    /\ exc = Nothing
    /\ run = 0
    /\ prev = NoOutcome
    /\ registered = {}
    /\ ret = Nothing
    /\ crm_entities \in UNION { [1..n -> CrmPool] : n \in 1..MaxCrm }
    /\ log = <<>>
    /\ issued = <<>>
    /\ call = NoCall
    /\ invocations = <<>>
    /\ registries = <<>>
    /\ pending = <<>>
    /\ lock = 0

\* The variables no validator call touches.
crmFrame == <<lite_result, by_ref_id, by_label, pc, i, j, entities, relationships,
              warnings, result, run, prev, registered, invocations, registries,
              pending, lock>>

\* The value lists a caller hands to enforce_quantifier: None, or n values.
ValueLists == {Nothing} \cup { ListV([k \in 1..n |-> UuidV("u2")]) : n \in 0..MaxValues }

\* Observe with the inspected entities stripped of their field values.
ObserveClearing(c, e, value) ==
    /\ call' = c
    /\ log' = e.log
    /\ issued' = e.issued
    /\ exc' = e.exc
    /\ ret' = value
    /\ crm_entities' = [k \in 1..Len(crm_entities) |->
                          CrmEntity(crm_entities[k].id, crm_entities[k].class_code,
                                    [f \in DOMAIN crm_entities[k].fields |-> Nothing])]
    /\ UNCHANGED crmFrame

\* The call c ended with the effect e and, if it returned, the value.
Observe(c, e, value) ==
    /\ call' = c
    /\ log' = e.log
    /\ issued' = e.issued
    /\ exc' = e.exc
    /\ ret' = value
    /\ UNCHANGED crm_entities
    /\ UNCHANGED crmFrame

\* The call c returned the message list of v.
ObserveMessages(c, v) ==
    /\ call' = c
    /\ log' = v.log
    /\ issued' = v.issued
    /\ exc' = Nothing
    /\ ret' = ListV(v.messages)
    /\ UNCHANGED crm_entities
    /\ UNCHANGED crmFrame

\* The call c returned the results dict of v.
ObserveResults(c, v) ==
    /\ call' = c
    /\ log' = v.log
    /\ issued' = v.issued
    /\ exc' = Nothing
    /\ ret' = DictV(v.results)
    /\ UNCHANGED crm_entities
    /\ UNCHANGED crmFrame

\* enforce_quantifier(crm_entities[k], p_code, values, severity)
CallEnforceQuantifier(k, p_code, values, severity) ==
    /\ pc = "validators"
    /\ call = NoCall
    /\ k \in 1..Len(crm_entities)
    /\ Observe([fn |-> "enforce_quantifier", entity |-> crm_entities[k],
                p_code |-> p_code, values |-> values, severity |-> severity],
               EnforceQuantifier(crm_entities[k], p_code, values, severity),
               Nothing)

\* validate_entity_quantifiers(crm_entities[k], severity)
CallValidateEntityQuantifiers(k, severity) ==
    /\ pc = "validators"
    /\ call = NoCall
    /\ k \in 1..Len(crm_entities)
    /\ ObserveMessages([fn |-> "validate_entity_quantifiers",
                        entity |-> crm_entities[k], severity |-> severity],
                       ValidateEntityQuantifiers(crm_entities[k], severity))

\* validate_batch_quantifiers(crm_entities, severity)
CallValidateBatchQuantifiers(severity) ==
    /\ pc = "validators"
    /\ call = NoCall
    /\ ObserveResults([fn |-> "validate_batch_quantifiers", severity |-> severity],
                      ValidateBatchQuantifiers(crm_entities, severity))

\* validate_domain_range_alignment(crm_entities[ks], crm_entities[kt], p_code, severity)
CallValidateDomainRangeAlignment(ks, kt, p_code, severity) ==
    /\ pc = "validators"
    /\ call = NoCall
    /\ ks \in 1..Len(crm_entities)
    /\ kt \in 1..Len(crm_entities)
    /\ Observe([fn |-> "validate_domain_range_alignment", source |-> crm_entities[ks],
                target |-> crm_entities[kt], p_code |-> p_code, severity |-> severity],
               ValidateDomainRangeAlignment(crm_entities[ks], crm_entities[kt],
                                            p_code, severity),
               Nothing)

\* validate_entity_typing(crm_entities[k], lookup of the batch, severity)
CallValidateEntityTyping(k, severity) ==
    /\ pc = "validators"
    /\ call = NoCall
    /\ k \in 1..Len(crm_entities)
    /\ ObserveMessages([fn |-> "validate_entity_typing", entity |-> crm_entities[k],
                        severity |-> severity],
                       ValidateEntityTyping(crm_entities[k], EntityLookup(crm_entities),
                                            severity))

\* validate_batch_typing(crm_entities, severity)
CallValidateBatchTyping(severity) ==
    /\ pc = "validators"
    /\ call = NoCall
    /\ ObserveResults([fn |-> "validate_batch_typing", severity |-> severity],
                      ValidateBatchTyping(crm_entities, severity))

\* The client is done with the outcome of its call.
Discard ==
    /\ pc \in {"validators", "exporters"}
    /\ call # NoCall
    /\ log' = <<>>
    /\ issued' = <<>>
    /\ exc' = Nothing
    /\ ret' = Nothing
    /\ call' = NoCall
    /\ UNCHANGED crm_entities
    /\ UNCHANGED crmFrame

NextValidation ==
    \/ \E k \in 1..MaxCrm, p_code \in PropertyCodes, values \in ValueLists,
          severity \in Severities : CallEnforceQuantifier(k, p_code, values, severity)
    \/ \E k \in 1..MaxCrm, severity \in Severities :
          CallValidateEntityQuantifiers(k, severity)
    \/ \E severity \in Severities : CallValidateBatchQuantifiers(severity)
    \/ \E ks \in 1..MaxCrm, kt \in 1..MaxCrm, p_code \in PropertyCodes,
          severity \in Severities :
          CallValidateDomainRangeAlignment(ks, kt, p_code, severity)
    \/ \E k \in 1..MaxCrm, severity \in Severities : CallValidateEntityTyping(k, severity)
    \/ \E severity \in Severities : CallValidateBatchTyping(severity)
    \/ Discard

SpecValidation == InitCrm /\ [][NextValidation]_vars

-----------------------------------------------------------------------------
(* Vocabulary of the validation properties *)

\* The four quantifier forms of the registry format.
ZeroOrOne == <<"0", ".", ".", "1">>
ExactlyOne == <<"1", ".", ".", "1">>
AnyNumber == <<"0", ".", ".", "*">>
OneOrMore == <<"1", ".", ".", "*">>

WellFormed(quantifier) == quantifier \in {ZeroOrOne, ExactlyOne, AnyNumber, OneOrMore}

\* The counts a well-formed quantifier permits.
Permits(quantifier, n) ==
    CASE quantifier = ZeroOrOne -> n \in {0, 1}
      [] quantifier = ExactlyOne -> n = 1
      [] quantifier = AnyNumber -> TRUE
      [] quantifier = OneOrMore -> n >= 1

\* The number of values handed over; a missing list counts as none.
CountOf(values) == IF values = Nothing THEN 0 ELSE Len(values.items)

\* The last call was enforce_quantifier on an entity of the domain class of a
\* registered property with a well-formed quantifier.
EnforceApplies ==
    /\ call.fn = "enforce_quantifier"
    /\ InP(call.p_code)
    /\ call.entity.class_code = PropertyInfo(call.p_code).domain
    /\ WellFormed(PropertyInfo(call.p_code).quantifier)

\* ... and the number of values is outside the declared range.
CardinalityViolated ==
    /\ EnforceApplies
    /\ ~Permits(PropertyInfo(call.p_code).quantifier, CountOf(call.values))

\* The last call raised an exception of the class.
RaisedA(cls) == exc # Nothing /\ exc.cls = cls

\* The last call reported a violation: by a CRMValidationError or by a warning.
ViolationReported == RaisedA("CRMValidationError") \/ Len(issued) > 0

\* A quantifier violation message names the entity, its class, the property
\* code, the actual count and a bound of the declared range.
NamesViolation(full_message) ==
    /\ full_message.entity = call.entity.id
    /\ full_message.class = call.entity.class_code
    /\ full_message.message.p_code = call.p_code
    /\ full_message.message.got = CountOf(call.values)
    /\ ~Permits(PropertyInfo(call.p_code).quantifier, full_message.message.got)
    /\ \/ /\ full_message.message.text = "requires at least"
          /\ full_message.message.got < full_message.message.bound
          /\ Permits(PropertyInfo(call.p_code).quantifier, full_message.message.bound)
       \/ /\ full_message.message.text = "allows at most"
          /\ full_message.message.got > full_message.message.bound
          /\ Permits(PropertyInfo(call.p_code).quantifier, full_message.message.bound)

-----------------------------------------------------------------------------
(* C11 *)

-----------------------------------------------------------------------------
(* C12 *)

\* C12: when the quantifier check applies (severity warn or raise, an entity of
\* the property's domain class, a quantifier min..max), a violation is reported
\* exactly when the number n of values is outside the range: n < min, or max is
\* not '*' and n > max; a missing or empty list counts as 0.
C12_ViolationIffOutOfRange ==
    (EnforceApplies /\ call.severity # "ignore") =>
        (ViolationReported <=> CardinalityViolated)

\* No value against 1..* is reported, and one value against 1..1 is not.
C12_Witness ==
    /\ EnforceApplies
    /\ call.severity = "raise"
    /\ \/ /\ PropertyInfo(call.p_code).quantifier = OneOrMore
          /\ call.values = Nothing
          /\ ViolationReported
       \/ /\ PropertyInfo(call.p_code).quantifier = ExactlyOne
          /\ CountOf(call.values) = 1
          /\ ~ViolationReported

-----------------------------------------------------------------------------
(* C13 *)

\* class_code is the class, or the ancestry table lists the class among the
\* ancestors of class_code.
IsOrDescendsFrom(class_code, class) ==
    \/ class_code = class
    \/ /\ class_code \in DOMAIN inheritance_map
       /\ class \in { inheritance_map[class_code][k] :
                        k \in 1..Len(inheritance_map[class_code]) }

\* The last call was validate_domain_range_alignment on a registered property
\* at severity warn or raise.
AlignmentApplies ==
    /\ call.fn = "validate_domain_range_alignment"
    /\ InP(call.p_code)
    /\ call.severity # "ignore"

\* The sides of the triple that do not fit the property.
FailingSides ==
    (IF IsOrDescendsFrom(call.source.class_code, PropertyInfo(call.p_code).domain)
     THEN {} ELSE {"domain"})
    \cup
    (IF IsOrDescendsFrom(call.target.class_code, PropertyInfo(call.p_code).range)
     THEN {} ELSE {"range"})

\* The sides the last call reported a violation for.
ReportedSides ==
    { issued[k].message.message.side : k \in 1..Len(issued) }
    \cup (IF RaisedA("CRMValidationError") THEN {exc.message.message.side} ELSE {})

\* C13: validate_domain_range_alignment accepts a triple exactly when the source
\* class is the domain class or one of its descendants and the target class is
\* the range class or one of its descendants, per the ancestry table; it
\* reports violations for failing sides only, and at severity warn for each of
\* them; E22 -> E22 against domain E22 / range E12 is reported on the range
\* side alone.
C13_DomainRangeAlignment ==
    AlignmentApplies =>
        /\ ViolationReported <=> FailingSides # {}
        /\ ReportedSides \subseteq FailingSides
        /\ call.severity = "warn" => ReportedSides = FailingSides
        /\ (/\ call.source.class_code = "E22"
            /\ call.target.class_code = "E22"
            /\ call.p_code = "P108") => ReportedSides = {"range"}

\* An E22 object given as the producer of an E22 object: a range-side report;
\* and an E12 production accepted as the source of P4, whose domain is E2.
C13_Witness ==
    /\ AlignmentApplies
    /\ \/ /\ call.source.class_code = "E22"
          /\ call.target.class_code = "E22"
          /\ call.p_code = "P108"
          /\ ReportedSides = {"range"}
       \/ /\ call.source.class_code = "E12"
          /\ call.p_code = "P4"
          /\ "domain" \notin FailingSides
          /\ ReportedSides = {"range"}

-----------------------------------------------------------------------------
(* C14 *)

\* The entity holds, for a property of its class, a number of values outside
\* the property's quantifier.
ViolatesQuantifier(entity) ==
    \E k \in 1..Len(P) :
        /\ P[k].domain = entity.class_code
        /\ ~Permits(P[k].quantifier, CountOf(GetPropertyValues(entity, P[k].code)))

\* The entity points, through a property of its class, to an entity of the
\* batch whose class does not fit the property's range.
ViolatesTyping(entity) ==
    \E k \in 1..Len(P), t \in 1..Len(crm_entities) :
        /\ P[k].domain = entity.class_code
        /\ UuidV(crm_entities[t].id) \in
              { GetPropertyValues(entity, P[k].code).items[x] :
                  x \in 1..Len(GetPropertyValues(entity, P[k].code).items) }
        /\ ~IsOrDescendsFrom(crm_entities[t].class_code, P[k].range)

\* The ids of the batch are distinct and every property of the classes of the
\* batch has a well-formed quantifier.
PlainBatch ==
    /\ \A x, y \in 1..Len(crm_entities) :
          crm_entities[x].id = crm_entities[y].id => x = y
    /\ \A x \in 1..Len(crm_entities), k \in 1..Len(P) :
          P[k].domain = crm_entities[x].class_code => WellFormed(P[k].quantifier)

\* C14: at severity warn and raise, validate_batch_quantifiers and
\* validate_batch_typing return a map whose keys are exactly the ids of the
\* entities of the batch with at least one violation, each with a non-empty
\* message list; the map is empty exactly when no entity violates a rule.
C14_BatchMapsViolators ==
    /\ (/\ call.fn = "validate_batch_quantifiers"
        /\ call.severity # "ignore"
        /\ PlainBatch) =>
           /\ DOMAIN ret.items = { crm_entities[x].id : x \in
                               { y \in 1..Len(crm_entities) :
                                   ViolatesQuantifier(crm_entities[y]) } }
           /\ \A id \in DOMAIN ret.items : Len(ret.items[id]) > 0
    /\ (/\ call.fn = "validate_batch_typing"
        /\ call.severity # "ignore"
        /\ PlainBatch) =>
           /\ DOMAIN ret.items = { crm_entities[x].id : x \in
                               { y \in 1..Len(crm_entities) :
                                   ViolatesTyping(crm_entities[y]) } }
           /\ \A id \in DOMAIN ret.items : Len(ret.items[id]) > 0

-----------------------------------------------------------------------------
(* C15 *)

\* A few batches: empty; one entity with a broken link; two entities of one
\* label with a link between them; two entities whose ids collide; an entity
\* that fails validation.
SmallBatches ==
    { [entities |-> <<>>, relationships |-> <<>>],
      [entities |-> <<LiteEntity("a", "Person", "c", None, {})>>,
       relationships |-> <<LiteRelationship(MissingRef, "a", "P98")>>],
      [entities |-> <<LiteEntity("a", "Person", "c", None, {}),
                      LiteEntity("a:b", "Person", "c", None, {})>>,
       relationships |-> <<LiteRelationship("a:b", "a", "P7")>>],
      [entities |-> <<LiteEntity("a:b", "Person", "c", None, {}),
                      LiteEntity("a", "Person", "b:c", None, {})>>,
       relationships |-> <<>>],
      [entities |-> <<LiteEntity("a", "Event", "c", "d", {<<"event_type", None>>})>>,
       relationships |-> <<>>] }

\* A caller that runs the resolution pipeline on one of the small batches, or
\* validates CRM entities.
InitCaller == (Init /\ lite_result \in SmallBatches) \/ InitCrm

NextCaller == Next \/ NextValidation

SpecCaller == InitCaller /\ [][NextCaller]_vars

-----------------------------------------------------------------------------
(* C16 *)

\* The last call was one of the two checks, on a property code that is not in
\* the registry.
UnknownCodeChecked ==
    /\ call.fn \in {"enforce_quantifier", "validate_domain_range_alignment"}
    /\ ~InP(call.p_code)

\* The call logged the unknown code, and nothing else.
LoggedUnknownCode ==
    /\ Len(log) = 1
    /\ log[1].level = "WARNING"
    /\ log[1].msg = [text |-> "Unknown property code", p_code |-> call.p_code]

\* C16: on a property code that is not in the registry, both checks, at every
\* severity including raise, log the unknown code, skip the check and return
\* without reporting a violation.
C16_UnknownCodeLoggedAlways ==
    UnknownCodeChecked =>
        /\ exc = Nothing
        /\ issued = <<>>
        /\ LoggedUnknownCode

\* C16, amended: on a property code that is not in the registry, both checks
\* return without reporting a violation at every severity including raise; at
\* severities warn and raise they log the unknown code, at severity ignore they
\* log nothing.
C16_UnknownCodeNonFatal ==
    UnknownCodeChecked =>
        /\ exc = Nothing
        /\ issued = <<>>
        /\ call.severity \in {"warn", "raise"} => LoggedUnknownCode
        /\ call.severity = "ignore" => log = <<>>

\* An unknown code at severity raise: logged, nothing raised.
C16_Witness ==
    /\ UnknownCodeChecked
    /\ call.severity = "raise"
    /\ exc = Nothing
    /\ LoggedUnknownCode

-----------------------------------------------------------------------------
(* C17 *)

\* The registry holds, for the class of the entity, a property whose quantifier
\* lacks the ".." separator.
HasMalformedProperty(entity) ==
    \E k \in 1..Len(P) :
        /\ P[k].domain = entity.class_code
        /\ ~HasSeparator(P[k].quantifier)

\* The last call was a quantifier validation that got to parse a quantifier
\* without the ".." separator: enforce_quantifier on an entity of the domain
\* class of such a property, or validate_entity_quantifiers /
\* validate_batch_quantifiers on an entity whose class has such a property.
ReachesMalformedQuantifier ==
    /\ call # NoCall
    /\ call.severity # "ignore"
    /\ \/ /\ call.fn = "enforce_quantifier"
          /\ InP(call.p_code)
          /\ call.entity.class_code = PropertyInfo(call.p_code).domain
          /\ ~HasSeparator(PropertyInfo(call.p_code).quantifier)
       \/ /\ call.fn = "validate_entity_quantifiers"
          /\ HasMalformedProperty(call.entity)
       \/ /\ call.fn = "validate_batch_quantifiers"
          /\ \E k \in 1..Len(crm_entities) : HasMalformedProperty(crm_entities[k])

\* C17: a quantifier of the registry without the ".." separator is fatal: every
\* quantifier validation that reaches the property, through enforce_quantifier
\* or through validate_entity_quantifiers / validate_batch_quantifiers, fails
\* with an error instead of returning a normal result.
C17_MalformedQuantifierFatal ==
    ReachesMalformedQuantifier => exc # Nothing

-----------------------------------------------------------------------------
(* Concurrent invocations of resolve_extraction *)

MaxInvocations == 2

\* The locals of one invocation of resolve_extraction(lite_result), before its
\* first statement.
NewInvocation(lr) ==
    [lite_result |-> lr, pc |-> "idle", i |-> 1, j |-> 1, entities |-> <<>>,
     relationships |-> <<>>, warnings |-> <<>>, result |-> Nothing, exc |-> Nothing]

\* EntityRegistry.__init__
EmptyRegistry == [by_ref_id |-> EmptyDict, by_label |-> <<>>]

\* registry = EntityRegistry()
CallStep(inv) == [inv |-> [inv EXCEPT !.pc = "stageA"], registry |-> EmptyRegistry]

\* The stage A iteration once registry.register has answered r.
AfterRegister(inv, r) ==
    [inv |-> IF r.raised # Nothing
             THEN [inv EXCEPT !.pc = "raised", !.exc = r.raised]
             ELSE [inv EXCEPT !.i = @ + 1],
     registry |-> [by_ref_id |-> r.by_ref_id, by_label |-> r.by_label]]

\* One iteration of the stage A loop on the registry reg.
RegisterStep(inv, reg) ==
    AfterRegister(inv, Register(reg.by_ref_id, reg.by_label,
                                inv.lite_result.entities[inv.i]))

\* entities = registry.entities
CollectStep(inv, reg) ==
    [inv |-> [inv EXCEPT !.entities = Entities(reg.by_label), !.pc = "stageB"],
     registry |-> reg]

\* The stage B iteration once both ends of lite_rel are resolved.
AfterResolve(inv, lite_rel, source, target) ==
    IF source = Nothing
    THEN [inv EXCEPT !.warnings = Append(@, Warning("source", lite_rel.source_ref)),
                     !.j = @ + 1]
    ELSE IF target = Nothing
    THEN [inv EXCEPT !.warnings = Append(@, Warning("target", lite_rel.target_ref)),
                     !.j = @ + 1]
    ELSE IF "source_snippet" \notin LiteRelationshipFields
    THEN [inv EXCEPT !.pc = "raised", !.exc = Exception("AttributeError")]
    ELSE [inv EXCEPT !.relationships =
                         Append(@, [source_id      |-> source.id,
                                    target_id      |-> target.id,
                                    property_code  |-> lite_rel.property_code,
                                    property_label |-> lite_rel.property_label,
                                    confidence     |-> lite_rel.confidence,
                                    source_text    |-> lite_rel.source_snippet]),
                     !.j = @ + 1]

\* One iteration of the stage B loop on the registry reg.
ResolveStep(inv, reg) ==
    [inv |-> AfterResolve(inv, inv.lite_result.relationships[inv.j],
                          Resolve(reg.by_ref_id,
                                  inv.lite_result.relationships[inv.j].source_ref),
                          Resolve(reg.by_ref_id,
                                  inv.lite_result.relationships[inv.j].target_ref)),
     registry |-> reg]

\* return ExtractionResult(entities=entities, relationships=relationships)
ReturnStep(inv, reg) ==
    [inv |-> [inv EXCEPT !.result = [entities |-> inv.entities,
                                     relationships |-> inv.relationships],
                         !.pc = "returned"],
     registry |-> reg]

\* The statement the invocation is at, run on the registry reg.
StepOf(inv, reg) ==
    CASE inv.pc = "idle" -> CallStep(inv)
      [] inv.pc = "stageA" /\ inv.i <= Len(inv.lite_result.entities) ->
            RegisterStep(inv, reg)
      [] inv.pc = "stageA" /\ inv.i > Len(inv.lite_result.entities) ->
            CollectStep(inv, reg)
      [] inv.pc = "stageB" /\ inv.j <= Len(inv.lite_result.relationships) ->
            ResolveStep(inv, reg)
      [] inv.pc = "stageB" /\ inv.j > Len(inv.lite_result.relationships) ->
            ReturnStep(inv, reg)

\* The invocation run to its end with nothing in between its statements.
RECURSIVE RunToEnd(_)
RunToEnd(s) ==
    IF s.inv.pc \in {"returned", "raised"} THEN s.inv
    ELSE RunToEnd(StepOf(s.inv, s.registry))

\* resolve_extraction(lr), run alone.
ResolveExtraction(lr) ==
    RunToEnd([inv |-> NewInvocation(lr), registry |-> EmptyRegistry])

\* Inputs of the concurrent invocations: the small batches, and a batch that
\* links a ref_id it does not define.
IndependentInputs ==
    SmallBatches \cup
    { [entities |-> <<>>, relationships |-> <<LiteRelationship("a", "a", "P98")>>] }

\* Every invocation on one registry object, as a module-level registry would be.
RegistryOfShared(n) == 1

\* The registry of invocation n: the instance its own line 134 built.
RegistryOf(n) == n

InitConcurrent ==
    /\ lite_result = [entities |-> <<>>, relationships |-> <<>>]
    /\ by_ref_id = EmptyDict
    /\ by_label = <<>>
    /\ pc = "concurrent"
    /\ i = 1
    /\ j = 1
    /\ entities = <<>>
    /\ relationships = <<>>
    /\ warnings = <<>>
    /\ result = Nothing
    /\ exc = Nothing
    /\ run = 0
    /\ prev = NoOutcome
    /\ registered = {}
    /\ ret = Nothing
    /\ crm_entities = <<>>
    /\ log = <<>>
    /\ issued = <<>>
    /\ call = NoCall
    /\ \E k \in 1..MaxInvocations :
          /\ invocations \in [1..k -> { NewInvocation(lr) : lr \in IndependentInputs }]
          /\ registries = [n \in 1..k |-> EmptyRegistry]
    /\ pending = <<>>
    /\ lock = 0

\* Invocation n has run its statement, with the outcome s.
Advance(n, s) ==
    /\ invocations' = [invocations EXCEPT ![n] = s.inv]
    /\ registries' = [registries EXCEPT ![RegistryOf(n)] = s.registry]
    /\ UNCHANGED <<resVars, crm_entities, log, issued, call, pending, lock>>

\* Invocation n enters resolve_extraction and builds its registry.
InvCall(n) ==
    /\ pc = "concurrent"
    /\ n \in 1..Len(invocations)
    /\ invocations[n].pc = "idle"
    /\ Advance(n, CallStep(invocations[n]))

\* Invocation n registers its next lite entity.
InvRegisterEntity(n) ==
    /\ pc = "concurrent"
    /\ n \in 1..Len(invocations)
    /\ invocations[n].pc = "stageA"
    /\ invocations[n].i <= Len(invocations[n].lite_result.entities)
    /\ Advance(n, RegisterStep(invocations[n], registries[RegistryOf(n)]))

\* Invocation n reads registry.entities.
InvCollectEntities(n) ==
    /\ pc = "concurrent"
    /\ n \in 1..Len(invocations)
    /\ invocations[n].pc = "stageA"
    /\ invocations[n].i > Len(invocations[n].lite_result.entities)
    /\ Advance(n, CollectStep(invocations[n], registries[RegistryOf(n)]))

\* Invocation n resolves its next lite relationship.
InvResolveRelationship(n) ==
    /\ pc = "concurrent"
    /\ n \in 1..Len(invocations)
    /\ invocations[n].pc = "stageB"
    /\ invocations[n].j <= Len(invocations[n].lite_result.relationships)
    /\ Advance(n, ResolveStep(invocations[n], registries[RegistryOf(n)]))

\* Invocation n returns.
InvReturn(n) ==
    /\ pc = "concurrent"
    /\ n \in 1..Len(invocations)
    /\ invocations[n].pc = "stageB"
    /\ invocations[n].j > Len(invocations[n].lite_result.relationships)
    /\ Advance(n, ReturnStep(invocations[n], registries[RegistryOf(n)]))

NextConcurrent ==
    \E n \in 1..MaxInvocations :
        \/ InvCall(n)
        \/ InvRegisterEntity(n)
        \/ InvCollectEntities(n)
        \/ InvResolveRelationship(n)
        \/ InvReturn(n)

SpecConcurrent == InitConcurrent /\ [][NextConcurrent]_vars

-----------------------------------------------------------------------------
(* C18 *)

\* What an invocation hands to its caller: the result, or the exception.
OutcomeOf(inv) == [result |-> inv.result, exc |-> inv.exc]

\* The ref_ids and the labels of the lite entities of a batch.
RefIdsOf(lr) == { lr.entities[k].ref_id : k \in 1..Len(lr.entities) }
LabelsOf(lr) == { lr.entities[k].label : k \in 1..Len(lr.entities) }

\* C18: no mutable state crosses invocations of resolve_extraction: in every
\* interleaving of invocations on independent inputs, each invocation that has
\* ended hands back what it hands back when run alone (with the same broken
\* links reported), and the registry an invocation resolves against holds no
\* ref_id and no label of another batch.
C18_InvocationsIsolated ==
    \A n \in 1..Len(invocations) :
        /\ invocations[n].pc \in {"returned", "raised"} =>
              /\ OutcomeOf(invocations[n]) =
                    OutcomeOf(ResolveExtraction(invocations[n].lite_result))
              /\ invocations[n].warnings =
                    ResolveExtraction(invocations[n].lite_result).warnings
        /\ DOMAIN registries[RegistryOf(n)].by_ref_id
              \subseteq RefIdsOf(invocations[n].lite_result)
        /\ { registries[RegistryOf(n)].by_label[k].key :
               k \in 1..Len(registries[RegistryOf(n)].by_label) }
              \subseteq LabelsOf(invocations[n].lite_result)

\* One invocation has registered ref_id "a" and is still running; another, whose
\* batch links "a" without defining it, has returned with the link reported
\* broken.
C18_Witness ==
    \E n, m \in 1..Len(invocations) :
        /\ n # m
        /\ invocations[n].pc \in {"stageA", "stageB"}
        /\ "a" \in DOMAIN registries[RegistryOf(n)].by_ref_id
        /\ invocations[m].pc = "returned"
        /\ invocations[m].lite_result.entities = <<>>
        /\ invocations[m].warnings = <<Warning("source", "a")>>

-----------------------------------------------------------------------------
(* Producers registering on one shared EntityRegistry *)

MaxProducers == 2

\* The lite entities the producers hold.
ProducerEntities ==
    { LiteEntity(r, "Person", l, None, {}) : r \in RefIds, l \in Labels }
    \cup { LiteEntity("a", "Event", "c", "d", {<<"event_type", None>>}) }

\* A producer about to call registry.register(lite).
NewProducer(lite) == [lite |-> lite, pc |-> "ready", existing |-> Nothing, ret |-> Nothing]

InitProducers ==
    /\ lite_result = [entities |-> <<>>, relationships |-> <<>>]
    /\ by_ref_id = EmptyDict
    /\ by_label = <<>>
    /\ pc = "producers"
    /\ i = 1
    /\ j = 1
    /\ entities = <<>>
    /\ relationships = <<>>
    /\ warnings = <<>>
    /\ result = Nothing
    /\ exc = Nothing
    /\ run = 0
    /\ prev = NoOutcome
    /\ registered = {}
    /\ ret = Nothing
    /\ crm_entities = <<>>
    /\ log = <<>>
    /\ issued = <<>>
    /\ call = NoCall
    /\ invocations = <<>>
    /\ registries = <<>>
    /\ \E k \in 1..MaxProducers :
          pending \in [1..k -> { NewProducer(lite) : lite \in ProducerEntities }]
    /\ lock = 0

\* The variables no producer touches.
producerFrame == <<lite_result, pc, i, j, entities, relationships, warnings, result,
                   exc, run, prev, ret, crm_entities, log, issued, call, invocations,
                   registries>>

\* Producer p takes the callers' mutex before it calls register.
ProducerAcquire(p) ==
    /\ pc = "producers"
    /\ p \in 1..Len(pending)
    /\ pending[p].pc = "ready"
    /\ lock = 0
    /\ lock' = p
    /\ pending' = [pending EXCEPT ![p].pc = "lookup"]
    /\ UNCHANGED <<by_ref_id, by_label, registered>>
    /\ UNCHANGED producerFrame

\* self._by_label[label] = entity
LabelPut(label_map, label, entity) ==
    IF LabelIndex(label_map, label) # 0
    THEN [label_map EXCEPT ![LabelIndex(label_map, label)].value = entity]
    ELSE Append(label_map, [key |-> label, value |-> entity])

\* register, lines 95-96: the membership test and the read of the existing entity.
ProducerLookup(p) ==
    /\ pc = "producers"
    /\ p \in 1..Len(pending)
    /\ pending[p].pc = "lookup"
    /\ pending' = [pending EXCEPT
                     ![p].pc = IF LabelIndex(by_label, pending[p].lite.label) # 0
                               THEN "found" ELSE "create",
                     ![p].existing = IF LabelIndex(by_label, pending[p].lite.label) # 0
                                     THEN by_label[LabelIndex(by_label,
                                                   pending[p].lite.label)].value
                                     ELSE Nothing]
    /\ UNCHANGED <<by_ref_id, by_label, registered, lock>>
    /\ UNCHANGED producerFrame

\* register, lines 97-98: the ref_id is pointed at the existing entity.
ProducerStoreExisting(p) ==
    /\ pc = "producers"
    /\ p \in 1..Len(pending)
    /\ pending[p].pc = "found"
    /\ by_ref_id' = DictPut(by_ref_id, pending[p].lite.ref_id, pending[p].existing)
    /\ pending' = [pending EXCEPT ![p].pc = "registered", ![p].ret = pending[p].existing]
    /\ registered' = registered \cup {<<pending[p].lite.ref_id, pending[p].lite.label>>}
    /\ UNCHANGED <<by_label, lock>>
    /\ UNCHANGED producerFrame

\* register, lines 100-103: the entity is built and entered in both dicts, or
\* its constructor raises.
ProducerCreate(p) ==
    /\ pc = "producers"
    /\ p \in 1..Len(pending)
    /\ pending[p].pc = "create"
    /\ IF EntityValidates(pending[p].lite)
       THEN /\ by_ref_id' = DictPut(by_ref_id, pending[p].lite.ref_id,
                                    MakeExtractedEntity(pending[p].lite))
            /\ by_label' = LabelPut(by_label, pending[p].lite.label,
                                    MakeExtractedEntity(pending[p].lite))
            /\ pending' = [pending EXCEPT
                             ![p].pc = "registered",
                             ![p].ret = MakeExtractedEntity(pending[p].lite)]
            /\ registered' = registered \cup
                                {<<pending[p].lite.ref_id, pending[p].lite.label>>}
       ELSE /\ pending' = [pending EXCEPT ![p].pc = "registered",
                                          ![p].ret = Exception("ValidationError")]
            /\ UNCHANGED <<by_ref_id, by_label, registered>>
    /\ UNCHANGED lock
    /\ UNCHANGED producerFrame

\* Producer p gives the mutex back once register has returned or raised.
ProducerRelease(p) ==
    /\ pc = "producers"
    /\ p \in 1..Len(pending)
    /\ pending[p].pc = "registered"
    /\ lock = p
    /\ lock' = 0
    /\ pending' = [pending EXCEPT ![p].pc = "done"]
    /\ UNCHANGED <<by_ref_id, by_label, registered>>
    /\ UNCHANGED producerFrame

NextProducers ==
    \E p \in 1..MaxProducers :
        \/ ProducerAcquire(p)
        \/ ProducerLookup(p)
        \/ ProducerStoreExisting(p)
        \/ ProducerCreate(p)
        \/ ProducerRelease(p)

SpecProducers == InitProducers /\ [][NextProducers]_vars

-----------------------------------------------------------------------------
(* C19 *)

\* No two producers hold the same ref_id.
DistinctRefIds ==
    \A p, q \in 1..Len(pending) :
        pending[p].lite.ref_id = pending[q].lite.ref_id => p = q

\* C19: when several producers register on one shared registry (each its own
\* ref_id) and every register call runs under the callers' mutual exclusion,
\* then in every interleaving, whenever no call is under way, the registry
\* holds exactly one entity for each registered label and every registered
\* ref_id resolves to the entity of its label.
C19_SerializedRegistration ==
    (lock = 0 /\ DistinctRefIds) =>
        /\ \A q \in registered :
              Cardinality(WithLabel(Entities(by_label), q[2])) = 1
        /\ \A q \in registered :
              Resolve(by_ref_id, q[1]) = by_label[LabelIndex(by_label, q[2])].value

-----------------------------------------------------------------------------
(* Shortcut expansion: io/to_cypher.py, io/to_networkx/graph_builder.py *)

\* shortcut_mapping with the codes of the two time primitives exchanged.
shortcut_mapping_Exchanged ==
    << <<"timespan", "P4">>, <<"took_place_at", "P7">>, <<"current_location", "P53">>,
       <<"produced_by", "P108">>, <<"begin_of_the_begin", "P80">>,
       <<"end_of_the_end", "P79">> >>

\* shortcut_mapping (the same dict in both modules), in its insertion order.
shortcut_mapping ==
    << <<"timespan", "P4">>, <<"took_place_at", "P7">>, <<"current_location", "P53">>,
       <<"produced_by", "P108">>, <<"begin_of_the_begin", "P79">>,
       <<"end_of_the_end", "P80">> >>

\* hasattr(entity, shortcut_field) and the value is truthy: a UUID, not None.
HasTarget(entity, shortcut_field) ==
    /\ shortcut_field \in DOMAIN entity.fields
    /\ entity.fields[shortcut_field] # Nothing

\* The dict expand_shortcuts appends; P[p_code] of a missing code is a KeyError.
CypherRel(entity, p_code, target_id) ==
    IF ~InP(p_code) THEN [exc |-> [cls |-> "KeyError", message |-> p_code]]
    ELSE IF Len(PropertyInfo(p_code).aliases) = 0
    THEN [exc |-> [cls |-> "IndexError", message |-> p_code]]
    ELSE [exc |-> Nothing,
          rel |-> [src |-> entity.id,
                   type |-> p_code \o "_" \o PropertyInfo(p_code).aliases[1],
                   tgt |-> StrOfUuid(target_id)]]

\* The dict _expand_entity_shortcuts appends.
GraphRel(entity, p_code, target_id, shortcut_field) ==
    [exc |-> Nothing,
     rel |-> [src |-> entity.id, type |-> p_code, tgt |-> StrOfUuid(target_id),
              props |-> [shortcut_field |-> shortcut_field]]]

\* rels.append(...) unless building the dict raised, now or before.
AppendRel(before, built) ==
    IF before.exc # Nothing THEN before
    ELSE IF built.exc # Nothing THEN [rels |-> before.rels, exc |-> built.exc]
    ELSE [rels |-> Append(before.rels, built.rel), exc |-> Nothing]

\* The loop of expand_shortcuts over the first n entries of shortcut_mapping.
RECURSIVE ExpandShortcutsUpTo(_, _)
ExpandShortcutsUpTo(entity, n) ==
    IF n = 0 THEN [rels |-> <<>>, exc |-> Nothing]
    ELSE IF HasTarget(entity, shortcut_mapping[n][1])
         THEN AppendRel(ExpandShortcutsUpTo(entity, n - 1),
                        CypherRel(entity, shortcut_mapping[n][2],
                                  entity.fields[shortcut_mapping[n][1]]))
         ELSE ExpandShortcutsUpTo(entity, n - 1)

\* expand_shortcuts
ExpandShortcuts(entity) == ExpandShortcutsUpTo(entity, Len(shortcut_mapping))

\* The loop of _expand_entity_shortcuts over the first n entries.
RECURSIVE ExpandEntityShortcutsUpTo(_, _)
ExpandEntityShortcutsUpTo(entity, n) ==
    IF n = 0 THEN [rels |-> <<>>, exc |-> Nothing]
    ELSE IF HasTarget(entity, shortcut_mapping[n][1])
         THEN AppendRel(ExpandEntityShortcutsUpTo(entity, n - 1),
                        GraphRel(entity, shortcut_mapping[n][2],
                                 entity.fields[shortcut_mapping[n][1]],
                                 shortcut_mapping[n][1]))
         ELSE ExpandEntityShortcutsUpTo(entity, n - 1)

\* _expand_entity_shortcuts
ExpandEntityShortcuts(entity) ==
    ExpandEntityShortcutsUpTo(entity, Len(shortcut_mapping))

\* The entities handed to the exporters: objects, events, time-spans with each
\* of their shortcut fields set or null, and entities without a set field.
ShortcutPool ==
    { EE22_HumanMadeObject("u1", cl, pb) :
        cl \in {Nothing, UuidV("u2")}, pb \in {Nothing, UuidV("u3")} }
    \cup { EE5_Event("u1", "E5", ts, tp) :
             ts \in {Nothing, UuidV("u2")}, tp \in {Nothing, UuidV("u3")} }
    \cup { EE52_TimeSpan("u2", b, e) :
             b \in {Nothing, UuidV("u1")}, e \in {Nothing, UuidV("u3")} }
    \cup { EE53_Place("u3"), EE21_Person("u3", Nothing) }

InitShortcuts ==
    /\ lite_result = [entities |-> <<>>, relationships |-> <<>>]
    /\ by_ref_id = EmptyDict
    /\ by_label = <<>>
    /\ pc = "exporters"
    /\ i = 1
    /\ j = 1
    /\ entities = <<>>
    /\ relationships = <<>>
    /\ warnings = <<>>
    /\ result = Nothing
    /\ exc = Nothing
    /\ run = 0
    /\ prev = NoOutcome
    /\ registered = {}
    /\ ret = Nothing
    /\ \E k \in 1..MaxCrm : crm_entities \in [1..k -> ShortcutPool]
    /\ log = <<>>
    /\ issued = <<>>
    /\ call = NoCall
    /\ invocations = <<>>
    /\ registries = <<>>
    /\ pending = <<>>
    /\ lock = 0

\* The call c of an exporter ended with the outcome v.
ObserveExpansion(c, v) ==
    /\ call' = c
    /\ exc' = v.exc
    /\ ret' = ListV(v.rels)
    /\ UNCHANGED <<log, issued, crm_entities>>
    /\ UNCHANGED crmFrame

\* expand_shortcuts(crm_entities[k])
CallExpandShortcuts(k) ==
    /\ pc = "exporters"
    /\ call = NoCall
    /\ k \in 1..Len(crm_entities)
    /\ ObserveExpansion([fn |-> "expand_shortcuts", entity |-> crm_entities[k]],
                        ExpandShortcuts(crm_entities[k]))

\* _expand_entity_shortcuts(crm_entities[k])
CallExpandEntityShortcuts(k) ==
    /\ pc = "exporters"
    /\ call = NoCall
    /\ k \in 1..Len(crm_entities)
    /\ ObserveExpansion([fn |-> "_expand_entity_shortcuts", entity |-> crm_entities[k]],
                        ExpandEntityShortcuts(crm_entities[k]))

NextShortcuts ==
    \/ \E k \in 1..MaxCrm : CallExpandShortcuts(k)
    \/ \E k \in 1..MaxCrm : CallExpandEntityShortcuts(k)
    \/ Discard

SpecShortcuts == InitShortcuts /\ [][NextShortcuts]_vars

-----------------------------------------------------------------------------
(* C20 *)

\* The shortcut fields and the property each stands for.
ShortcutProperties ==
    { <<"timespan", "P4">>, <<"took_place_at", "P7">>, <<"current_location", "P53">>,
      <<"produced_by", "P108">>, <<"begin_of_the_begin", "P79">>,
      <<"end_of_the_end", "P80">> }

\* The last call was a shortcut expansion.
ExpansionApplies == call.fn \in {"expand_shortcuts", "_expand_entity_shortcuts"}

\* The field is declared by the entity's class and holds a value.
FieldIsSet(entity, shortcut_field) ==
    /\ shortcut_field \in DOMAIN entity.fields
    /\ entity.fields[shortcut_field] # Nothing

\* The relationship type names the property: the code, or the code followed by
\* "_" and an alias the registry gives it.
NamesProperty(type, p_code) ==
    \/ type = p_code
    \/ /\ InP(p_code)
       /\ \E k \in 1..Len(PropertyInfo(p_code).aliases) :
             type = p_code \o "_" \o PropertyInfo(p_code).aliases[k]

\* The positions of the expansion that carry a triple of the property.
TriplesOfProperty(rels, p_code) ==
    { k \in 1..Len(rels) : NamesProperty(rels[k].type, p_code) }

\* C20: for every entity and every shortcut field (timespan as P4,
\* took_place_at as P7, current_location as P53, produced_by as P108,
\* begin_of_the_begin as P79, end_of_the_end as P80) the expansion holds
\* exactly one triple of the property when the field is set, with the entity's
\* id as source and the field's value as target, and no triple of the property
\* when the field is absent or null; and it holds nothing else.
C20_ShortcutExpansion ==
    ExpansionApplies =>
        /\ exc = Nothing
        /\ \A s \in ShortcutProperties :
              IF FieldIsSet(call.entity, s[1])
              THEN /\ Cardinality(TriplesOfProperty(ret.items, s[2])) = 1
                   /\ \A k \in TriplesOfProperty(ret.items, s[2]) :
                         /\ ret.items[k].src = call.entity.id
                         /\ ret.items[k].tgt = call.entity.fields[s[1]].hex
              ELSE TriplesOfProperty(ret.items, s[2]) = {}
        /\ Len(ret.items) =
              Cardinality({ s \in ShortcutProperties : FieldIsSet(call.entity, s[1]) })

\* The object of the unit test, both fields set: two triples; and a time-span
\* with its end set and its begin null: the one triple of P80.
C20_Witness ==
    /\ ExpansionApplies
    /\ \/ /\ call.entity.class_code = "E22"
          /\ FieldIsSet(call.entity, "current_location")
          /\ FieldIsSet(call.entity, "produced_by")
          /\ Len(ret.items) = 2
       \/ /\ call.entity.class_code = "E52"
          /\ ~FieldIsSet(call.entity, "begin_of_the_begin")
          /\ Len(ret.items) = 1
          /\ NamesProperty(ret.items[1].type, "P80")

-----------------------------------------------------------------------------
(* C21 *)

\* The required subtype field of the four entity types that have one.
SubtypeKey(entity_type) ==
    CASE entity_type = "Event"    -> "event_type"
      [] entity_type = "Place"    -> "place_type"
      [] entity_type = "Object"   -> "object_type"
      [] entity_type = "TimeSpan" -> "time_type"

\* C21: a register call that creates an Event, Place, Object or TimeSpan entity
\* sets its subtype field (event_type, place_type, object_type, time_type) to
\* the value under that key in the lite entity's attributes, and to "unknown"
\* when the key is absent; a created Person or fallback E55 entity has no
\* such field.
C21_SubtypeDefaults ==
    [][\A lite \in LiteEntities :
          (/\ ClientRegister(lite)
           /\ LabelIndex(by_label, lite.label) = 0
           /\ ret'.cls # "ValidationError") =>
              IF lite.entity_type \in {"Event", "Place", "Object", "TimeSpan"}
              THEN ret'.fields =
                      { <<SubtypeKey(lite.entity_type),
                          IF \E a \in lite.attributes : a[1] = SubtypeKey(lite.entity_type)
                          THEN (CHOOSE a \in lite.attributes :
                                   a[1] = SubtypeKey(lite.entity_type))[2]
                          ELSE "unknown">> }
              ELSE ret'.fields = {}]_vars

\* An event created with the event_type of its attributes, next to a place
\* created with the default.
C21_Witness ==
    /\ Len(by_label) = 2
    /\ by_label[1].value.cls = "PlaceExtraction"
    /\ by_label[1].value.fields = {<<"place_type", "unknown">>}
    /\ ret = by_label[2].value
    /\ ret.fields = {<<"event_type", "battle">>}

-----------------------------------------------------------------------------
(* extraction/crm_mapper.py, after resolve_extraction or on a given result *)

\* A Python str holding the text.
StrV(text) == [cls |-> "str", text |-> text]

\* The string validators of CRMEntity.id and CRMRelation.src / tgt, taking the
\* branch for a string that is not a UUID: the id is derived from a hash.
ConvertStringToUuidHashed(v) ==
    IF v.cls = "str" THEN "md5:" \o v.text ELSE v.hex

\* convert_string_to_uuid: UUID(v) of a string that str() made of a UUID is
\* that UUID; a UUID is returned as it is.
ConvertStringToUuid(v) ==
    IF v.cls = "str" THEN v.text ELSE v.hex

\* _entity_to_crm
EntityToCrm(entity) ==
    [cls        |-> "CRMEntity",
     id         |-> ConvertStringToUuid(StrV(StrOfUuid(UuidV(entity.id)))),
     class_code |-> entity.class_code,
     label      |-> entity.label,
     notes      |-> entity.description,
     type       |-> <<entity.class_code>>]

\* CRMRelation(src=rel.source_id, type=rel.property_code, tgt=rel.target_id)
RelationToCrm(rel) ==
    [cls   |-> "CRMRelation",
     src   |-> ConvertStringToUuid(UuidV(rel.source_id)),
     type  |-> rel.property_code,
     tgt   |-> ConvertStringToUuid(UuidV(rel.target_id)),
     props |-> Nothing]

\* map_to_crm_entities
MapToCrmEntities(res) ==
    [cls           |-> "tuple",
     crm_entities  |-> [k \in 1..Len(res.entities) |-> EntityToCrm(res.entities[k])],
     crm_relations |-> [k \in 1..Len(res.relationships) |->
                          RelationToCrm(res.relationships[k])]]

\* A lite entity with a source snippet.
WithSnippet(lite, snippet) == [lite EXCEPT !.source_snippet = snippet]

\* The lite entities and relationships of the batches that are resolved and
\* then mapped.
MapperEntities ==
    { WithSnippet(LiteEntity("a", "Person", "c", None, {}), "s"),
      LiteEntity("a:b", "Place", "b:c", None, {}),
      LiteEntity("a:b", "Event", "c", "d", {}) }

MapperRelationships ==
    { LiteRelationship("a", "a:b", "P98"), LiteRelationship(MissingRef, "a", "P7") }

MapperBatches ==
    [entities : SeqsUpTo(MapperEntities, MaxEntities),
     relationships : SeqsUpTo(MapperRelationships, 1)]

\* An ExtractedRelationship between two entities.
ExtractedRelationship(source, target, property_code, source_text) ==
    [source_id |-> source.id, target_id |-> target.id, property_code |-> property_code,
     property_label |-> "label", confidence |-> 10, source_text |-> source_text]

\* ExtractionResults a caller builds itself: up to MaxEntities entities and at
\* most one relationship between two of them.
GivenResults ==
    { [entities |-> [k \in 1..Len(es) |-> MakeExtractedEntity(es[k])],
       relationships |-> rs] :
         es \in SeqsUpTo(MapperEntities, MaxEntities),
         rs \in {<<>>} \cup
                { <<ExtractedRelationship(MakeExtractedEntity(x), MakeExtractedEntity(y),
                                          "P98", t)>> :
                     x \in MapperEntities, y \in MapperEntities, t \in {None, "t"} } }

\* A caller about to resolve a batch, or holding a result of its own.
InitMapper ==
    /\ by_ref_id = EmptyDict
    /\ by_label = <<>>
    /\ i = 1
    /\ j = 1
    /\ entities = <<>>
    /\ relationships = <<>>
    /\ warnings = <<>>
    /\ exc = Nothing
    /\ run = 0
    /\ prev = NoOutcome
    /\ registered = {}
    /\ ret = Nothing
    /\ ExtIdle
    /\ \/ /\ pc = "idle"
          /\ lite_result \in MapperBatches
          /\ result = Nothing
       \/ /\ pc = "given"
          /\ lite_result = [entities |-> <<>>, relationships |-> <<>>]
          /\ result \in GivenResults

\* entities, relations = map_to_crm_entities(result)
CallMapToCrmEntities ==
    /\ pc \in {"returned", "given"}
    /\ call = NoCall
    /\ call' = [fn |-> "map_to_crm_entities", after |-> pc]
    /\ ret' = MapToCrmEntities(result)
    /\ pc' = "mapped"
    /\ UNCHANGED <<lite_result, by_ref_id, by_label, i, j, entities, relationships,
                   warnings, result, exc, run, prev, registered>>
    /\ UNCHANGED <<crm_entities, log, issued, invocations, registries, pending, lock>>

NextMapper == Next \/ CallMapToCrmEntities

SpecMapper == InitMapper /\ [][NextMapper]_vars

-----------------------------------------------------------------------------
(* C22 *)

\* The last call was map_to_crm_entities, on the result held in `result`.
Mapped == pc = "mapped" /\ call.fn = "map_to_crm_entities"

-----------------------------------------------------------------------------
(* C23 *)

\* The first lite entity of the batch with the label: the one the resolved
\* entity of that label was created from.
FirstWithLabel(label) ==
    lite_result.entities[CHOOSE k \in 1..Len(lite_result.entities) :
                            /\ lite_result.entities[k].label = label
                            /\ \A m \in 1..(k - 1) : lite_result.entities[m].label # label]

\* The object has the attribute and it holds the text.
HasSourceText(obj, text) == "source_text" \in DOMAIN obj /\ obj.source_text = text

\* C23: provenance text survives the pipeline: the source_snippet of a lite
\* entity is the source_text of the resolved entity and of its CRMEntity, None
\* when no snippet was given, and resolving a relationship whose ends both
\* resolve carries its snippet instead of failing.
C23_ProvenanceSurvives ==
    /\ (Mapped /\ call.after = "returned") =>
          \A k \in 1..Len(result.entities) :
              /\ HasSourceText(result.entities[k],
                               FirstWithLabel(result.entities[k].label).source_snippet)
              /\ HasSourceText(ret.crm_entities[k],
                               FirstWithLabel(result.entities[k].label).source_snippet)
    /\ (pc = "raised") => exc.cls # "AttributeError"

-----------------------------------------------------------------------------
(* C24 *)

\* No ref_id has been registered under two labels.
RefIdsUsedOnce == \A p \in registered, q \in registered : p[1] = q[1] => p[2] = q[2]

\* C24: label equality is exact and the sole merge signal: two registered lite
\* entities whose labels differ are never merged, their ref_ids resolve to
\* entities with different ids, and registry.entities holds one entity for
\* each of the two labels.  (Stated for ref_ids that were each used under one
\* label.)
C24_DifferentLabelsNeverMerged ==
    RefIdsUsedOnce =>
        \A p \in registered, q \in registered :
            p[2] # q[2] =>
                /\ Resolve(by_ref_id, p[1]).id # Resolve(by_ref_id, q[1]).id
                /\ Resolve(by_ref_id, p[1]).label = p[2]
                /\ Resolve(by_ref_id, q[1]).label = q[2]
                /\ Cardinality(WithLabel(Entities(by_label), p[2])) = 1
                /\ Cardinality(WithLabel(Entities(by_label), q[2])) = 1

-----------------------------------------------------------------------------
(* io/to_cypher.py: the script and its parameters *)

MaxNodes == 3
MaxBatchSize == 3

\* entity.<name>, None where the model declares a default of None.
Attr(entity, name) == IF name \in DOMAIN entity THEN entity[name] ELSE None

\* emit_nodes: the node dict of an entity, None values removed.
EmitNode(entity) ==
    { kv \in { <<name, Attr(entity, name)>> :
                  name \in {"id", "class_code", "label", "notes", "type"} } :
         kv[2] # None }

EmitNodes(es) == [k \in 1..Len(es) |-> EmitNode(es[k])]

\* The relationships emit_relationships appends for entity.participants.
RECURSIVE ParticipantRelsUpTo(_, _)
ParticipantRelsUpTo(entity, n) ==
    IF n = 0 THEN <<>>
    ELSE Append(ParticipantRelsUpTo(entity, n - 1),
                [src |-> entity.id, type |-> "P11_HAD_PARTICIPANT",
                 tgt |-> StrOfUuid(entity.fields["participants"].items[n])])

ParticipantRels(entity) ==
    IF "participants" \in DOMAIN entity.fields
    THEN ParticipantRelsUpTo(entity, Len(entity.fields["participants"].items))
    ELSE <<>>

\* emit_relationships over the first n entities.
RECURSIVE EmitRelationshipsUpTo(_, _)
EmitRelationshipsUpTo(es, n) ==
    IF n = 0 THEN [rels |-> <<>>, exc |-> Nothing]
    ELSE LET before == EmitRelationshipsUpTo(es, n - 1)
             shortcut_rels == ExpandShortcuts(es[n])
         IN IF before.exc # Nothing THEN before
            ELSE IF shortcut_rels.exc # Nothing
            THEN [rels |-> before.rels, exc |-> shortcut_rels.exc]
            ELSE [rels |-> before.rels \o shortcut_rels.rels \o ParticipantRels(es[n]),
                  exc |-> Nothing]

EmitRelationships(es) == EmitRelationshipsUpTo(es, Len(es))

\* rels_by_type after the first n relationships: the types in the order of
\* their first relationship, each with its relationships in order.
RECURSIVE RelsByTypeUpTo(_, _)
RelsByTypeUpTo(rels, n) ==
    IF n = 0 THEN <<>>
    ELSE LET before == RelsByTypeUpTo(rels, n - 1)
             rel == rels[n]
         IN IF \E k \in 1..Len(before) : before[k].key = rel.type
            THEN [k \in 1..Len(before) |->
                    IF before[k].key = rel.type
                    THEN [key |-> rel.type, value |-> Append(before[k].value, rel)]
                    ELSE before[k]]
            ELSE Append(before, [key |-> rel.type, value |-> <<rel>>])

RelsByType(rels) == RelsByTypeUpTo(rels, Len(rels))

\* range(0, n, batch_size) as a sequence.
Range(n, batch_size) ==
    [k \in 1..((n + batch_size - 1) \div batch_size) |-> (k - 1) * batch_size]

\* items[i : i + batch_size]
Slice(items, start, batch_size) ==
    SubSeq(items, start + 1,
           IF start + batch_size < Len(items) THEN start + batch_size ELSE Len(items))

\* f"{prefix}_{number}"
ParamName(prefix, number) == prefix \o "_" \o ToString(number)

\* A line of the script; param is the $parameter an UNWIND line reads.
Line(text) == [text |-> text, param |-> None]
Unwind(param, alias) == [text |-> "UNWIND $... AS " \o alias, param |-> param]

\* Variant of _generate_node_script that names a batch by its offset.
GenerateNodeScriptByOffset(nodes, batch_size) ==
    IF nodes = <<>> THEN <<>>
    ELSE LET starts == Range(Len(nodes), batch_size)
             Batch(k) == << Unwind(ParamName("nodes", starts[k]), "n"),
                            Line("MERGE (x:CRM {id: n.id})"),
                            Line("SET x.label = coalesce(n.label, x.label)"),
                            Line("SET x.class_code = n.class_code"),
                            Line("SET x.notes = coalesce(n.notes, x.notes)"),
                            Line("SET x.type = coalesce(n.type, x.type);"),
                            Line("") >>
             RECURSIVE Parts(_)
             Parts(k) == IF k = 0 THEN <<Line("-- Create nodes")>>
                         ELSE Parts(k - 1) \o Batch(k)
         IN Parts(Len(starts))

\* _generate_node_script
GenerateNodeScript(nodes, batch_size) ==
    IF nodes = <<>> THEN <<>>
    ELSE LET starts == Range(Len(nodes), batch_size)
             Batch(k) == << Unwind(ParamName("nodes", starts[k] \div batch_size), "n"),
                            Line("MERGE (x:CRM {id: n.id})"),
                            Line("SET x.label = coalesce(n.label, x.label)"),
                            Line("SET x.class_code = n.class_code"),
                            Line("SET x.notes = coalesce(n.notes, x.notes)"),
                            Line("SET x.type = coalesce(n.type, x.type);"),
                            Line("") >>
             RECURSIVE Parts(_)
             Parts(k) == IF k = 0 THEN <<Line("-- Create nodes")>>
                         ELSE Parts(k - 1) \o Batch(k)
         IN Parts(Len(starts))

\* The lines _generate_relationship_script writes for one type (the quotes
\* around the type in the MERGE line are left out).
TypeScript(rel_type, type_rels, batch_size) ==
    LET starts == Range(Len(type_rels), batch_size)
        Batch(k) == << Unwind(ParamName("rels_" \o rel_type, starts[k] \div batch_size), "r"),
                       Line("MATCH (s:CRM {id: r.src})"),
                       Line("MATCH (t:CRM {id: r.tgt})"),
                       Line("MERGE (s)-[:" \o rel_type \o "]->(t);"),
                       Line("") >>
        RECURSIVE Parts(_)
        Parts(k) == IF k = 0 THEN <<>> ELSE Parts(k - 1) \o Batch(k)
    IN Parts(Len(starts))

\* _generate_relationship_script
GenerateRelationshipScript(rels, batch_size) ==
    IF rels = <<>> THEN <<>>
    ELSE LET rels_by_type == RelsByType(rels)
             RECURSIVE Parts(_)
             Parts(k) == IF k = 0 THEN <<Line("-- Create relationships")>>
                         ELSE Parts(k - 1) \o TypeScript(rels_by_type[k].key,
                                                         rels_by_type[k].value, batch_size)
         IN Parts(Len(rels_by_type))

\* generate_cypher_script: the lines of the script, or the exception of
\* emit_relationships.
GenerateCypherScript(es, include_constraints, batch_size) ==
    LET node_data == EmitNodes(es)
        rel_data == EmitRelationships(es)
    IN IF rel_data.exc # Nothing THEN [exc |-> rel_data.exc, ret |-> Nothing]
       ELSE [exc |-> Nothing,
             ret |-> ListV((IF include_constraints
                            THEN <<Line("-- Create constraints")>> ELSE <<>>)
                           \o GenerateNodeScript(node_data, batch_size)
                           \o GenerateRelationshipScript(rel_data.rels, batch_size))]

\* params[key] = value
ParamsPut(params, key, value) ==
    IF \E k \in 1..Len(params) : params[k].key = key
    THEN [k \in 1..Len(params) |->
            IF params[k].key = key THEN [key |-> key, value |-> value] ELSE params[k]]
    ELSE Append(params, [key |-> key, value |-> value])

\* The loop "for i in range(0, len(items), batch_size): params[...] = batch",
\* over the first n batches.
RECURSIVE PutBatches(_, _, _, _, _)
PutBatches(params, prefix, items, batch_size, n) ==
    IF n = 0 THEN params
    ELSE ParamsPut(PutBatches(params, prefix, items, batch_size, n - 1),
                   ParamName(prefix, Range(Len(items), batch_size)[n] \div batch_size),
                   Slice(items, Range(Len(items), batch_size)[n], batch_size))

\* The loop over rels_by_type.items(), over the first n types.
RECURSIVE PutTypes(_, _, _, _)
PutTypes(params, rels_by_type, batch_size, n) ==
    IF n = 0 THEN params
    ELSE PutBatches(PutTypes(params, rels_by_type, batch_size, n - 1),
                    "rels_" \o rels_by_type[n].key, rels_by_type[n].value, batch_size,
                    Len(Range(Len(rels_by_type[n].value), batch_size)))

\* generate_cypher_parameters
GenerateCypherParameters(es, batch_size) ==
    LET node_data == EmitNodes(es)
        rel_data == EmitRelationships(es)
    IN IF rel_data.exc # Nothing THEN [exc |-> rel_data.exc, ret |-> Nothing]
       ELSE [exc |-> Nothing,
             ret |-> DictV(PutTypes(PutBatches(<<>>, "nodes", node_data, batch_size,
                                               Len(Range(Len(node_data), batch_size))),
                                    RelsByType(rel_data.rels), batch_size,
                                    Len(RelsByType(rel_data.rels))))]

\* An event class that declares participants.
EventWithParticipants(id, timespan, participants) ==
    CrmEntity(id, "E5", [f \in {"timespan", "took_place_at", "participants"} |->
                            IF f = "timespan" THEN timespan
                            ELSE IF f = "participants" THEN ListV(participants)
                            ELSE Nothing])

\* The entities handed to the script generators.
CypherPool ==
    { EE5_Event("u1", "E5", UuidV("u2"), UuidV("u3")),
      EE5_Event("u2", "E5", UuidV("u3"), Nothing),
      [label |-> "c"] @@ EE53_Place("u3"),
      EventWithParticipants("u1", UuidV("u2"), <<UuidV("u2"), UuidV("u3")>>) }

InitCypher ==
    /\ lite_result = [entities |-> <<>>, relationships |-> <<>>]
    /\ by_ref_id = EmptyDict
    /\ by_label = <<>>
    /\ pc = "exporters"
    /\ i = 1
    /\ j = 1
    /\ entities = <<>>
    /\ relationships = <<>>
    /\ warnings = <<>>
    /\ result = Nothing
    /\ exc = Nothing
    /\ run = 0
    /\ prev = NoOutcome
    /\ registered = {}
    /\ ret = Nothing
    /\ crm_entities \in SeqsUpTo(CypherPool, MaxNodes)
    /\ log = <<>>
    /\ issued = <<>>
    /\ call = NoCall
    /\ invocations = <<>>
    /\ registries = <<>>
    /\ pending = <<>>
    /\ lock = 0

\* The call c of a generator ended with the outcome v.
ObserveGenerated(c, v) ==
    /\ call' = c
    /\ exc' = v.exc
    /\ ret' = v.ret
    /\ UNCHANGED <<log, issued, crm_entities>>
    /\ UNCHANGED crmFrame

\* generate_cypher_script(crm_entities, include_constraints=..., batch_size=...)
CallGenerateCypherScript(include_constraints, batch_size) ==
    /\ pc = "exporters"
    /\ call = NoCall
    /\ ObserveGenerated([fn |-> "generate_cypher_script", batch_size |-> batch_size],
                        GenerateCypherScript(crm_entities, include_constraints, batch_size))

\* generate_cypher_parameters(crm_entities, batch_size=...)
CallGenerateCypherParameters(batch_size) ==
    /\ pc = "exporters"
    /\ call = NoCall
    /\ ObserveGenerated([fn |-> "generate_cypher_parameters", batch_size |-> batch_size],
                        GenerateCypherParameters(crm_entities, batch_size))

NextCypher ==
    \/ \E include_constraints \in BOOLEAN, batch_size \in 1..MaxBatchSize :
          CallGenerateCypherScript(include_constraints, batch_size)
    \/ \E batch_size \in 1..MaxBatchSize : CallGenerateCypherParameters(batch_size)
    \/ Discard

SpecCypher == InitCypher /\ [][NextCypher]_vars

-----------------------------------------------------------------------------
(* C25 *)

\* ceil(n / b)
CeilDiv(n, b) == (n + b - 1) \div b

\* The names nodes_k, or rels_<type>_k, that n items in batches of b need.
ExpectedNames(prefix, n, b) == { ParamName(prefix, k) : k \in 0..(CeilDiv(n, b) - 1) }

\* The relationship types of the entities and the relationships of a type.
RelTypes == { EmitRelationships(crm_entities).rels[k].type :
                 k \in 1..Len(EmitRelationships(crm_entities).rels) }

RelsOfType(rel_type) ==
    SelectSeq(EmitRelationships(crm_entities).rels, LAMBDA r : r.type = rel_type)

\* Every name the script and the parameters should hold.
AllExpectedNames ==
    ExpectedNames("nodes", Len(crm_entities), call.batch_size)
    \cup UNION { ExpectedNames("rels_" \o t, Len(RelsOfType(t)), call.batch_size) :
                    t \in RelTypes }

\* The $parameters the script reads and the keys of the parameters.
ScriptParams == { ret.items[k].param : k \in 1..Len(ret.items) } \ {None}
ParamKeys == { ret.items[k].key : k \in 1..Len(ret.items) }

\* The value under a key of the parameters.
ParamValue(key) == ret.items[CHOOSE k \in 1..Len(ret.items) : ret.items[k].key = key].value

\* The batches prefix_0, prefix_1, ... of the parameters, concatenated.
RECURSIVE ConcatBatches(_, _)
ConcatBatches(prefix, n) ==
    IF n = 0 THEN <<>>
    ELSE ConcatBatches(prefix, n - 1) \o ParamValue(ParamName(prefix, n - 1))

\* C25: for n entities and batch_size b >= 1 the script reads $nodes_k exactly
\* for k = 0 .. ceil(n/b)-1 and the parameters have exactly those keys, every
\* batch holds at most b items, the batches concatenated in key order are the
\* node list in input order, likewise per relationship type for rels_<type>_k,
\* and without entities there are no parameters.
C25_BatchingConsistent ==
    /\ (call.fn = "generate_cypher_script" /\ exc = Nothing) =>
          ScriptParams = AllExpectedNames
    /\ (call.fn = "generate_cypher_parameters" /\ exc = Nothing) =>
          /\ ParamKeys = AllExpectedNames
          /\ Cardinality(ParamKeys) = Len(ret.items)
          /\ \A k \in 1..Len(ret.items) : Len(ret.items[k].value) \in 1..call.batch_size
          /\ ConcatBatches("nodes", CeilDiv(Len(crm_entities), call.batch_size))
                = EmitNodes(crm_entities)
          /\ \A t \in RelTypes :
                ConcatBatches("rels_" \o t, CeilDiv(Len(RelsOfType(t)), call.batch_size))
                   = RelsOfType(t)
          /\ crm_entities = <<>> => ret.items = <<>>
    /\ call.fn \in {"generate_cypher_script", "generate_cypher_parameters"} =>
          exc = Nothing

\* Three entities in batches of two: a full and a partial batch of nodes, and
\* a relationship type with a full and a partial batch.
C25_Witness ==
    /\ call.fn = "generate_cypher_parameters"
    /\ call.batch_size = 2
    /\ Len(crm_entities) = 3
    /\ {"nodes_0", "nodes_1", "rels_P4_HAS_TIME_SPAN_0"} \subseteq ParamKeys
    /\ Len(ParamValue("nodes_1")) = 1
    /\ \E t \in RelTypes : Len(RelsOfType(t)) = 3

-----------------------------------------------------------------------------
(* C26 *)

\* Some registered ref_id resolves to the entity.
Reachable(entity) == \E r \in DOMAIN by_ref_id : Resolve(by_ref_id, r) = entity

\* C26 as stated: after any sequence of register calls, including calls that
\* reuse a ref_id with a different label, every entity in registry.entities
\* is the entity some registered ref_id resolves to.
C26_AllEntitiesReachable ==
    \A k \in 1..Len(Entities(by_label)) : Reachable(Entities(by_label)[k])

\* C26 amended: the same, after register calls that used no ref_id under two
\* labels.
C26_ReachableUnlessRefReused == RefIdsUsedOnce => C26_AllEntitiesReachable

\* Two ref_ids registered under two labels, two entities listed.
C26_Witness ==
    /\ RefIdsUsedOnce
    /\ Cardinality(registered) = 2
    /\ Len(Entities(by_label)) = 2
    /\ Entities(by_label)[1].id # Entities(by_label)[2].id

-----------------------------------------------------------------------------
(* C27 *)

\* The batch with its entity list in every order.
Reorderings(lr) ==
    { [lr EXCEPT !.entities = [k \in 1..Len(lr.entities) |-> lr.entities[f[k]]]] :
         f \in { g \in [1..Len(lr.entities) -> 1..Len(lr.entities)] :
                   \A x, y \in 1..Len(lr.entities) : g[x] = g[y] => x = y } }

\* The triples of a relationship list, in order.
TripleList(rs) ==
    [k \in 1..Len(rs) |-> <<rs[k].source_id, rs[k].property_code, rs[k].target_id>>]

\* The run of resolve_extraction on lr ends as the run on the batch has: both
\* raise, or both return with the same set of entity ids and the same list of
\* triples.
SameOutcome(lr) ==
    LET other == ResolveExtraction(lr) IN
    /\ other.pc = pc
    /\ pc = "returned" =>
          /\ IdsOf(other.result.entities) = IdsOf(result.entities)
          /\ TripleList(other.result.relationships) = TripleList(result.relationships)

\* No two lite entities of the batch share a label or a ref_id.
LabelsAndRefsDistinct ==
    \A k, m \in 1..Len(LiteEnts) :
        (LiteEnts[k].label = LiteEnts[m].label \/ LiteEnts[k].ref_id = LiteEnts[m].ref_id)
           => k = m

-----------------------------------------------------------------------------
(* C28 *)

\* The last call was enforce_quantifier with a registered property on an
\* entity whose class is not the property's domain class.
OutsideDomain ==
    /\ call.fn = "enforce_quantifier"
    /\ InP(call.p_code)
    /\ call.entity.class_code # PropertyInfo(call.p_code).domain

\* C28: enforce_quantifier checks the cardinality only when the entity's
\* class_code equals the property's domain class: for an entity of any other
\* class, a descendant of the domain class included, the check is skipped and
\* no violation is reported at any severity, whatever the number of values.
C28_DomainMatchIsExact ==
    OutsideDomain =>
        /\ exc = Nothing
        /\ issued = <<>>
        /\ \A k \in 1..Len(log) : log[k].level = "INFO"

\* A production (E12, a descendant of P4's domain E2) with two time-spans
\* against 0..1 at severity raise: nothing raised.
C28_Witness ==
    /\ OutsideDomain
    /\ call.entity.class_code = "E12"
    /\ call.p_code = "P4"
    /\ PropertyInfo("P4").domain = "E2"
    /\ IsClassCompatible("E12", "E2")
    /\ CountOf(call.values) = 2
    /\ call.severity = "raise"
    /\ exc = Nothing

-----------------------------------------------------------------------------
(* C29 *)

\* The last call was validate_domain_range_alignment on a triple of which
\* neither the source fits the domain nor the target the range.
BothSidesFail == AlignmentApplies /\ FailingSides = {"domain", "range"}

-----------------------------------------------------------------------------
(* models/generated/e_classes.py: the class declarations *)

\* The class each EE<n> class is declared a subclass of, by code; None for
\* EE1_CRMEntity, which subclasses the base model.
Superclass ==
    [c \in {
      "E1", "E2", "E3", "E4", "E5", "E6", "E7", "E8", "E9", "E10", "E11",
      "E12", "E13", "E14", "E15", "E16", "E17", "E18", "E19", "E20", "E21",
      "E22", "E23", "E24", "E25", "E26", "E27", "E28", "E29", "E30", "E31",
      "E32", "E33", "E34", "E35", "E36", "E37", "E38", "E39", "E40", "E41",
      "E42", "E43", "E44", "E45", "E46", "E47", "E48", "E49", "E50", "E51",
      "E52", "E53", "E54", "E55", "E56", "E57", "E58", "E59", "E60", "E61",
      "E62", "E63", "E64", "E65", "E66", "E67", "E68", "E69", "E70", "E71",
      "E72", "E73", "E74", "E75", "E76", "E77", "E78", "E79", "E80", "E81",
      "E82", "E83", "E84", "E85", "E86", "E87", "E88", "E89", "E90", "E91",
      "E92", "E93", "E94", "E95", "E96", "E97", "E98", "E99" } |->
        CASE c = "E1" -> None
          [] c = "E2" -> "E1"
          [] c = "E3" -> "E2"
          [] c = "E4" -> "E2"
          [] c = "E5" -> "E2"
          [] c = "E6" -> "E5"
          [] c = "E7" -> "E5"
          [] c = "E8" -> "E7"
          [] c = "E9" -> "E7"
          [] c = "E10" -> "E7"
          [] c = "E11" -> "E7"
          [] c = "E12" -> "E7"
          [] c = "E13" -> "E7"
          [] c = "E14" -> "E13"
          [] c = "E15" -> "E13"
          [] c = "E16" -> "E13"
          [] c = "E17" -> "E13"
          [] c = "E18" -> "E1"
          [] c = "E19" -> "E18"
          [] c = "E20" -> "E19"
          [] c = "E21" -> "E20"
          [] c = "E22" -> "E19"
          [] c = "E23" -> "E1"
          [] c = "E24" -> "E18"
          [] c = "E25" -> "E24"
          [] c = "E26" -> "E18"
          [] c = "E27" -> "E26"
          [] c = "E28" -> "E23"
          [] c = "E29" -> "E28"
          [] c = "E30" -> "E28"
          [] c = "E31" -> "E28"
          [] c = "E32" -> "E31"
          [] c = "E33" -> "E28"
          [] c = "E34" -> "E33"
          [] c = "E35" -> "E33"
          [] c = "E36" -> "E28"
          [] c = "E37" -> "E36"
          [] c = "E38" -> "E36"
          [] c = "E39" -> "E1"
          [] c = "E40" -> "E39"
          [] c = "E41" -> "E28"
          [] c = "E42" -> "E28"
          [] c = "E43" -> "E1"
          [] c = "E44" -> "E41"
          [] c = "E45" -> "E44"
          [] c = "E46" -> "E43"
          [] c = "E47" -> "E28"
          [] c = "E48" -> "E44"
          [] c = "E49" -> "E41"
          [] c = "E50" -> "E49"
          [] c = "E51" -> "E45"
          [] c = "E52" -> "E1"
          [] c = "E53" -> "E43"
          [] c = "E54" -> "E28"
          [] c = "E55" -> "E28"
          [] c = "E56" -> "E55"
          [] c = "E57" -> "E55"
          [] c = "E58" -> "E55"
          [] c = "E59" -> "E1"
          [] c = "E60" -> "E59"
          [] c = "E61" -> "E59"
          [] c = "E62" -> "E59"
          [] c = "E63" -> "E5"
          [] c = "E64" -> "E5"
          [] c = "E65" -> "E63"
          [] c = "E66" -> "E63"
          [] c = "E67" -> "E66"
          [] c = "E68" -> "E64"
          [] c = "E69" -> "E64"
          [] c = "E70" -> "E1"
          [] c = "E71" -> "E70"
          [] c = "E72" -> "E70"
          [] c = "E73" -> "E70"
          [] c = "E74" -> "E39"
          [] c = "E75" -> "E41"
          [] c = "E76" -> "E42"
          [] c = "E77" -> "E1"
          [] c = "E78" -> "E77"
          [] c = "E79" -> "E11"
          [] c = "E80" -> "E11"
          [] c = "E81" -> "E11"
          [] c = "E82" -> "E75"
          [] c = "E83" -> "E65"
          [] c = "E84" -> "E73"
          [] c = "E85" -> "E7"
          [] c = "E86" -> "E7"
          [] c = "E87" -> "E7"
          [] c = "E88" -> "E28"
          [] c = "E89" -> "E88"
          [] c = "E90" -> "E28"
          [] c = "E91" -> "E90"
          [] c = "E92" -> "E1"
          [] c = "E93" -> "E92"
          [] c = "E94" -> "E92"
          [] c = "E95" -> "E59"
          [] c = "E96" -> "E8"
          [] c = "E97" -> "E28"
          [] c = "E98" -> "E55"
          [] c = "E99" -> "E55"]

\* The superclasses of the class of the code, closest first.
RECURSIVE SuperclassChain(_)
SuperclassChain(class_code) ==
    IF Superclass[class_code] = None THEN <<>>
    ELSE <<Superclass[class_code]>> \o SuperclassChain(Superclass[class_code])

ClassCodes == DOMAIN Superclass

\* A Python bool.
BoolV(value) == [cls |-> "bool", value |-> value]

\* A caller of the compatibility test.
InitAncestry ==
    /\ lite_result = [entities |-> <<>>, relationships |-> <<>>]
    /\ by_ref_id = EmptyDict
    /\ by_label = <<>>
    /\ pc = "validators"
    /\ i = 1
    /\ j = 1
    /\ entities = <<>>
    /\ relationships = <<>>
    /\ warnings = <<>>
    /\ result = Nothing
    /\ exc = Nothing
    /\ run = 0
    /\ prev = NoOutcome
    /\ registered = {}
    /\ ret = Nothing
    /\ crm_entities = <<>>
    /\ log = <<>>
    /\ issued = <<>>
    /\ call = NoCall
    /\ invocations = <<>>
    /\ registries = <<>>
    /\ pending = <<>>
    /\ lock = 0

\* _is_class_compatible(entity_class, expected_class)
CallIsClassCompatible(entity_class, expected_class) ==
    /\ pc = "validators"
    /\ call = NoCall
    /\ call' = [fn |-> "_is_class_compatible", entity_class |-> entity_class,
                expected_class |-> expected_class]
    /\ ret' = BoolV(IsClassCompatible(entity_class, expected_class))
    /\ UNCHANGED <<exc, log, issued, crm_entities>>
    /\ UNCHANGED crmFrame

NextAncestry ==
    \/ \E entity_class \in ClassCodes, expected_class \in ClassCodes :
          CallIsClassCompatible(entity_class, expected_class)
    \/ Discard

SpecAncestry == InitAncestry /\ [][NextAncestry]_vars

-----------------------------------------------------------------------------
(* C30 *)

\* C30: the ancestry table of _is_class_compatible agrees with the declared
\* class hierarchy: for every class code the table's ancestor list is the
\* chain of superclasses of the EE<n> class, closest first and ending at E1,
\* so the list is the parent followed by the parent's list, no class is its
\* own ancestor, and the test answers as the class hierarchy would.
C30_AncestryAgreesWithClasses ==
    call.fn = "_is_class_compatible" =>
        /\ InheritanceChain(call.entity_class) = SuperclassChain(call.entity_class)
        /\ Superclass[call.entity_class] # None =>
              InheritanceChain(call.entity_class)
                 = <<Superclass[call.entity_class]>>
                      \o InheritanceChain(Superclass[call.entity_class])
        /\ \A k \in 1..Len(InheritanceChain(call.entity_class)) :
              InheritanceChain(call.entity_class)[k] # call.entity_class
        /\ ret.value <=>
              \/ call.expected_class = call.entity_class
              \/ \E k \in 1..Len(SuperclassChain(call.entity_class)) :
                    SuperclassChain(call.entity_class)[k] = call.expected_class

====
